---- MODULE Spec2Model ----
(***************************************************************************)
(* The chapter version writer of src/lib/ai/tools/create-book.ts:          *)
(* createBook.execute streams a chapter from the text model, then saves it *)
(* to the "Books" table (read the latest row, flip it, insert the next     *)
(* version) and schedules background memory writes with setImmediate.      *)
(*                                                                         *)
(* Every await of execute is a point where another execution may run, so   *)
(* each database statement is one action.  Strings are TLA+ strings; the   *)
(* JavaScript falsy values undefined / null / '' of a string-typed value   *)
(* are all written "" (the code only ever tests them for truthiness), and  *)
(* a nullable row (existingChapter, savedChapter) is a sequence of zero or *)
(* one rows, as the query result array it is read from.                    *)
(*                                                                         *)
(* Executions run in MaxConcurrent slots; a slot whose execution has       *)
(* returned keeps that execution's locals and result until the next        *)
(* execution starts in it.                                                 *)
(*                                                                         *)
(* The workflow tools of the same file (createBookPlan, draftChapter,      *)
(* segmentChapterIntoScenes, createCharacterPortraits) and                 *)
(* optimizeImageCreation of src/lib/ai/image-creation-optimizer.ts run one *)
(* at a time; `run` holds the tool that runs, its step and its locals, and *)
(* each awaited external call is one action that appends to `calls`.  A    *)
(* call that throws is the action ToolThrow (OptimizeThrow), which goes on *)
(* behind the catch of the try block the call sits in.  The hosted memory  *)
(* service is `memory`: store appends a record, search returns some of the *)
(* user's records in some order, update patches a record.                  *)
(***************************************************************************)
EXTENDS Integers, Sequences, FiniteSets, TLC

\* ---------------------------------------------------------------- bounds
NumExec == 3        \* createBook executions started in one behaviour
MaxConcurrent == 2  \* executions in progress at the same time
MaxDbFailures == 1      \* database statements that throw
MaxMemoryFailures == 1  \* background memory writes that fail
MaxPending == 0         \* setImmediate callbacks pending when an execution starts
MaxToolCalls == 2       \* workflow tool executions started in one behaviour
MaxToolFailures == 1    \* external calls of workflow tools that throw or find no memory access
MaxResults == 1         \* memories one search returns
MaxOptimizations == 1   \* optimizeImageCreation executions in one behaviour
MaxImageFailures == 2   \* calls of one optimizeImageCreation execution that throw

\* ---------------------------------------------------------------- inputs
Procs == 1..MaxConcurrent            \* the slots executions run in
UserIds == {"", "u1", "u2"}          \* session?.user?.id; "" is no user id
BookTitles == {"T"}
ChapterTitles == {"Ch"}
ChapterNumbers == {1, 2}
NoBookId == {""}                     \* the bookId input is optional
TextStreams == <<(<<"a", "bc">>), (<<"bc", "a">>)>>   \* streamResult.textStream, chunk by chunk
DbErrors == {"db down"}              \* error.message of a failed statement
StoreOutcomes == {"no-key", "stored", "false", "throws"}

VARIABLES
  Books,            \* the "Books" table, rows in insertion order
  uuidCount,        \* generateUUID calls made so far
  started,          \* executions started so far
  dbFailures,       \* database statements that threw so far
  clock,            \* logical time of new Date() / now()
  pc,               \* where each execution stands
  input,            \* the tool input and the session user of each execution
  id,               \* const id = generateUUID()
  dataStream,       \* parts written with dataStream.write, per execution
  draftContent,
  bookId,
  existingChapter,  \* result of the latest-version SELECT
  newTimestamp,
  savedChapter,
  saveError,
  result,           \* the value execute returned; << >> before it returns
  statements,       \* database statements each execution has issued
  immediateQueue,   \* callbacks handed to setImmediate, oldest first
  memory,           \* contents stored in the memory service
  memoryFailures,   \* background memory writes that failed so far
  failuresAtStart,  \* memoryFailures when the execution started
  run,              \* the workflow tool execution in progress: its pc and locals
  calls,            \* external calls that execution has made, in order
  returned,         \* what the workflow tool executions returned, oldest first
  toolCalls,        \* workflow tool executions started so far
  toolFailures,     \* external calls of workflow tools that threw so far
  book_props,       \* the book_props table, rows in insertion order
  propsJobs,        \* saveCharactersToDatabase runs in progress
  confirmed         \* the approval gates the user has confirmed

locals == <<pc, input, id, dataStream, draftContent, bookId, existingChapter,
            newTimestamp, savedChapter, saveError, result, statements,
            failuresAtStart>>
background == <<immediateQueue, memory, memoryFailures>>
workflow == <<run, calls, returned, toolCalls, toolFailures, book_props, propsJobs,
              confirmed>>
vars == <<Books, uuidCount, started, dbFailures, clock, locals, background, workflow>>

\* ---------------------------------------------------------------- helpers
\* generateUUID(): the n-th call returns a value no other call returns.
generateUUID(n) == "uuid-" \o ToString(n)

\* parseInt(String(v)) of a decimal numeral, the inverse of (n).toString().
parseInt(s) == CHOOSE n \in 0..(Len(Books) + 1) : ToString(n) = s

versionAlways1(row) == "1"

\* existingChapter[0].version || '1'
versionOr1(row) == IF row.version = "" THEN "1" ELSE row.version

nextVersionNoIncrement(row) == versionOr1(row)

nextVersionFromTable(row) ==
  ToString(Cardinality({i \in 1..Len(Books) :
                          /\ Books[i].bookId = row.bookId
                          /\ Books[i].chapterNumber = row.chapterNumber
                          /\ Books[i].userId = row.userId}) + 1)

\* (parseInt(String(existingChapter[0].version || '1')) + 1).toString()
nextVersion(row) == ToString(parseInt(versionOr1(row)) + 1)

Indexes(p) == {i \in 1..Len(Books) :
                 /\ Books[i].bookId = bookId[p]
                 /\ Books[i].chapterNumber = input[p].chapterNumber
                 /\ Books[i].userId = input[p].userId
                 /\ Books[i].is_latest}

\* SELECT * ... AND "is_latest" = true ORDER BY "createdAt" DESC LIMIT 1
LatestRows(p) ==
  {Books[i] : i \in {j \in Indexes(p) :
                       \A k \in Indexes(p) : Books[k].createdAt <= Books[j].createdAt}}

BookIdsOfAnyUser(title, user) ==
  {Books[i].bookId : i \in {j \in 1..Len(Books) : Books[j].bookTitle = title}}

\* SELECT DISTINCT "bookId" ... WHERE "bookTitle" = .. AND "userId" = .. LIMIT 1
BookIdsOf(title, user) ==
  {Books[i].bookId : i \in {j \in 1..Len(Books) :
                              Books[j].bookTitle = title /\ Books[j].userId = user}}

RowNotLatest(rid, p, createdAt, version) ==
  [id |-> rid, bookId |-> bookId[p], bookTitle |-> input[p].bookTitle,
   chapterNumber |-> input[p].chapterNumber, chapterTitle |-> input[p].chapterTitle,
   content |-> draftContent[p], userId |-> input[p].userId,
   createdAt |-> createdAt, updatedAt |-> createdAt,
   is_latest |-> FALSE, version |-> version]

\* The VALUES of the INSERT statements of lines 180-181 and 191-192.
Row(rid, p, createdAt, version) ==
  [id |-> rid, bookId |-> bookId[p], bookTitle |-> input[p].bookTitle,
   chapterNumber |-> input[p].chapterNumber, chapterTitle |-> input[p].chapterTitle,
   content |-> draftContent[p], userId |-> input[p].userId,
   createdAt |-> createdAt, updatedAt |-> createdAt,
   is_latest |-> TRUE, version |-> version]

ResultOfAlwaysSaved(in, execId, content, saved, err) ==
  [id |-> execId,
   bookId |-> IF saved # << >> /\ saved[1].bookId # "" THEN saved[1].bookId
              ELSE IF in.bookId # "" THEN in.bookId ELSE execId,
   bookTitle |-> in.bookTitle,
   chapterTitle |-> in.chapterTitle,
   chapterNumber |-> in.chapterNumber,
   content |-> content]
  @@ (IF err # "" THEN [saveError |-> err] ELSE << >>)
  @@ [saved |-> TRUE]

ResultOfLosesContent(in, execId, content, saved, err) ==
  [id |-> execId,
   bookId |-> IF saved # << >> /\ saved[1].bookId # "" THEN saved[1].bookId
              ELSE IF in.bookId # "" THEN in.bookId ELSE execId,
   bookTitle |-> in.bookTitle,
   chapterTitle |-> in.chapterTitle,
   chapterNumber |-> in.chapterNumber,
   content |-> IF saved # << >> THEN content ELSE ""]
  @@ (IF err # "" THEN [saveError |-> err] ELSE << >>)
  @@ (IF saved # << >> THEN [saved |-> TRUE] ELSE << >>)

\* const result = { id, bookId: ..., content: draftContent, ...saveError, ...saved }
ResultOf(in, execId, content, saved, err) ==
  [id |-> execId,
   bookId |-> IF saved # << >> /\ saved[1].bookId # "" THEN saved[1].bookId
              ELSE IF in.bookId # "" THEN in.bookId ELSE execId,
   bookTitle |-> in.bookTitle,
   chapterTitle |-> in.chapterTitle,
   chapterNumber |-> in.chapterNumber,
   content |-> content]
  @@ (IF err # "" THEN [saveError |-> err] ELSE << >>)
  @@ (IF saved # << >> THEN [saved |-> TRUE] ELSE << >>)

Result(p, saved, err) == ResultOf(input[p], id[p], draftContent[p], saved, err)

ChapterTaskOfInputBookId(p) ==
  [fn |-> "saveChapterToMemoryAsync", userId |-> input[p].userId,
   bookTitle |-> input[p].bookTitle, chapterTitle |-> input[p].chapterTitle,
   chapterNumber |-> input[p].chapterNumber, content |-> draftContent[p],
   bookId |-> input[p].bookId]

\* Lines 203-210: the arguments of saveChapterToMemoryAsync.
ChapterTask(p) ==
  [fn |-> "saveChapterToMemoryAsync", userId |-> input[p].userId,
   bookTitle |-> input[p].bookTitle, chapterTitle |-> input[p].chapterTitle,
   chapterNumber |-> input[p].chapterNumber, content |-> draftContent[p],
   bookId |-> bookId[p]]

\* Lines 214-218: the arguments of saveBookMetadataToMemoryAsync.
MetadataTask(p) ==
  [fn |-> "saveBookMetadataToMemoryAsync", userId |-> input[p].userId,
   bookTitle |-> input[p].bookTitle, chapterTitle |-> "",
   chapterNumber |-> 0, content |-> "", bookId |-> bookId[p]]

\* Lines 201-220: what a successful save hands to setImmediate.
MemoryTasks(p, saved) ==
  IF saved # << >> /\ input[p].userId # ""
  THEN <<ChapterTask(p)>> \o (IF input[p].chapterNumber = 1 THEN <<MetadataTask(p)>> ELSE << >>)
  ELSE << >>

\* ---------------------------------------------------------------- initial state
Init ==
  /\ Books = << >>
  /\ uuidCount = 0
  /\ started = 0
  /\ dbFailures = 0
  /\ clock = 0
  /\ pc = [p \in Procs |-> "idle"]
  /\ input = [p \in Procs |-> << >>]
  /\ id = [p \in Procs |-> ""]
  /\ dataStream = [p \in Procs |-> << >>]
  /\ draftContent = [p \in Procs |-> ""]
  /\ bookId = [p \in Procs |-> ""]
  /\ existingChapter = [p \in Procs |-> << >>]
  /\ newTimestamp = [p \in Procs |-> 0]
  /\ savedChapter = [p \in Procs |-> << >>]
  /\ saveError = [p \in Procs |-> ""]
  /\ result = [p \in Procs |-> << >>]
  /\ statements = [p \in Procs |-> << >>]
  /\ failuresAtStart = [p \in Procs |-> 0]
  /\ immediateQueue = << >>
  /\ memory = << >>
  /\ memoryFailures = 0
  /\ run = [tool |-> "none", pc |-> "idle"]
  /\ calls = << >>
  /\ returned = << >>
  /\ toolCalls = 0
  /\ toolFailures = 0
  /\ book_props = << >>
  /\ propsJobs = << >>
  /\ confirmed = {}

\* ---------------------------------------------------------------- createBook.execute
\* Lines 112-118: draftContent += textDelta for every chunk, in order.
Concat(chunks) ==
  LET c[i \in 0..Len(chunks)] == IF i = 0 THEN "" ELSE c[i - 1] \o chunks[i]
  IN c[Len(chunks)]

\* Lines 47-60 and 114-117: kind, title and id, then one text-delta per chunk
\* (the writer handed to createBook has a write method).
Written(in, execId, chunks) ==
  <<[type |-> "kind", content |-> "book"],
    [type |-> "title", content |-> in.bookTitle \o " - " \o in.chapterTitle],
    [type |-> "id", content |-> execId]>>
  \o [i \in 1..Len(chunks) |-> [type |-> "text-delta", content |-> chunks[i]]]

\* Lines 43-135 and 225-242: a new execution takes its input, generates the id,
\* writes kind/title/id and streams the chapter text; none of this touches shared
\* state.  Without a session user id the save is skipped and execute returns;
\* with a bookId in the input that id is used; otherwise the book is looked up.
\* The execution runs in a free slot (one never used, or one whose execution has
\* returned) with fresh locals.  Slots are interchangeable, so the lowest free
\* one is taken; user ids and generated texts are interchangeable too, so the
\* second user appears once the first has a stored row, and the k-th text no
\* earlier than the k-th execution.
Execute(p, in, k) ==
  /\ k <= started + 1
  /\ pc[p] \in {"idle", "done"}
  /\ \A q \in Procs : q < p => pc[q] \notin {"idle", "done"}
  /\ in.userId = "u2" => \E i \in 1..Len(Books) : Books[i].userId = "u1"
  /\ started < NumExec
  /\ Len(immediateQueue) <= MaxPending
  /\ started' = started + 1
  /\ input' = [input EXCEPT ![p] = in]
  /\ uuidCount' = uuidCount + 1
  /\ id' = [id EXCEPT ![p] = generateUUID(uuidCount + 1)]
  /\ dataStream' = [dataStream EXCEPT ![p] = Written(in, generateUUID(uuidCount + 1), TextStreams[k])]
  /\ draftContent' = [draftContent EXCEPT ![p] = Concat(TextStreams[k])]
  /\ existingChapter' = [existingChapter EXCEPT ![p] = << >>]
  /\ newTimestamp' = [newTimestamp EXCEPT ![p] = 0]
  /\ savedChapter' = [savedChapter EXCEPT ![p] = << >>]
  /\ statements' = [statements EXCEPT ![p] = << >>]
  /\ failuresAtStart' = [failuresAtStart EXCEPT ![p] = memoryFailures]
  /\ bookId' = [bookId EXCEPT ![p] = IF in.userId # "" THEN in.bookId ELSE ""]
  /\ IF in.userId = ""
     THEN /\ saveError' = [saveError EXCEPT ![p] = "No user session available for saving"]
          /\ result' = [result EXCEPT ![p] =
               ResultOf(in, generateUUID(uuidCount + 1), Concat(TextStreams[k]), << >>,
                        "No user session available for saving")]
          /\ pc' = [pc EXCEPT ![p] = "done"]
     ELSE /\ saveError' = [saveError EXCEPT ![p] = ""]
          /\ result' = [result EXCEPT ![p] = << >>]
          /\ pc' = [pc EXCEPT ![p] = IF in.bookId # "" THEN "selectLatest" ELSE "selectBook"]
  /\ UNCHANGED <<Books, dbFailures, clock, background>>

\* Lines 137-147: find the book of this title and user, or generate a bookId.
SelectBook(p) ==
  /\ pc[p] = "selectBook"
  /\ statements' = [statements EXCEPT ![p] = Append(@, "select-book")]
  /\ LET found == BookIdsOf(input[p].bookTitle, input[p].userId) IN
       IF found # {}
       THEN /\ \E b \in found : bookId' = [bookId EXCEPT ![p] = b]
            /\ UNCHANGED uuidCount
       ELSE /\ bookId' = [bookId EXCEPT ![p] = generateUUID(uuidCount + 1)]
            /\ uuidCount' = uuidCount + 1
  /\ pc' = [pc EXCEPT ![p] = "selectLatest"]
  /\ UNCHANGED <<Books, started, dbFailures, clock, input, id, dataStream, draftContent,
                 existingChapter, newTimestamp, savedChapter, saveError, result,
                 failuresAtStart, background, workflow>>

\* Lines 151-167: read the latest row of the chapter; when there is one, the
\* continuation takes newTimestamp before it issues the UPDATE.
SelectLatest(p) ==
  /\ pc[p] = "selectLatest"
  /\ statements' = [statements EXCEPT ![p] = Append(@, "select-latest")]
  /\ IF LatestRows(p) # {}
     THEN /\ \E row \in LatestRows(p) :
               existingChapter' = [existingChapter EXCEPT ![p] = <<row>>]
          /\ newTimestamp' = [newTimestamp EXCEPT ![p] = clock + 1]
          /\ clock' = clock + 1
          /\ pc' = [pc EXCEPT ![p] = "update"]
     ELSE /\ existingChapter' = [existingChapter EXCEPT ![p] = << >>]
          /\ pc' = [pc EXCEPT ![p] = "insert"]
          /\ UNCHANGED <<newTimestamp, clock>>
  /\ UNCHANGED <<Books, uuidCount, started, dbFailures, input, id, dataStream, draftContent, bookId,
                 savedChapter, saveError, result, failuresAtStart, background, workflow>>

MarkNotLatestWrongFlag(rows, existingId) ==
  [i \in 1..Len(rows) |->
     IF rows[i].id = existingId /\ ~rows[i].is_latest
     THEN [rows[i] EXCEPT !.is_latest = FALSE]
     ELSE rows[i]]

MarkNotLatestChapter(rows, existingId) ==
  [i \in 1..Len(rows) |->
     IF \E j \in 1..Len(rows) : /\ rows[j].id = existingId
                                 /\ rows[j].bookId = rows[i].bookId
                                 /\ rows[j].chapterNumber = rows[i].chapterNumber
                                 /\ rows[j].userId = rows[i].userId
     THEN [rows[i] EXCEPT !.is_latest = FALSE]
     ELSE rows[i]]

\* UPDATE "Books" SET "is_latest" = false WHERE "id" = .. AND "is_latest" = true
MarkNotLatest(rows, existingId) ==
  [i \in 1..Len(rows) |->
     IF rows[i].id = existingId /\ rows[i].is_latest
     THEN [rows[i] EXCEPT !.is_latest = FALSE]
     ELSE rows[i]]

\* Lines 169-175: mark the row that was read as not latest.
UpdateLatest(p) ==
  /\ pc[p] = "update"
  /\ statements' = [statements EXCEPT ![p] = Append(@, "update")]
  /\ Books' = MarkNotLatest(Books, existingChapter[p][1].id)
  /\ pc' = [pc EXCEPT ![p] = "insert"]
  /\ UNCHANGED <<uuidCount, started, dbFailures, clock, input, id, dataStream, draftContent, bookId,
                 existingChapter, newTimestamp, savedChapter, saveError, result,
                 failuresAtStart, background, workflow>>

\* The row the INSERT of lines 178-183 (a new version) or 189-194 (version '1',
\* created at now()) adds.
NewRow(p) ==
  IF existingChapter[p] # << >>
  THEN Row(generateUUID(uuidCount + 1), p, newTimestamp[p], nextVersion(existingChapter[p][1]))
  ELSE Row(generateUUID(uuidCount + 1), p, clock + 1, "1")

\* Lines 177-220 and 230-242: insert the row, hand the memory writes to
\* setImmediate, build the result and return it (no await in between).
Insert(p) ==
  /\ pc[p] = "insert"
  /\ statements' = [statements EXCEPT ![p] = Append(@, "insert")]
  /\ uuidCount' = uuidCount + 1
  /\ clock' = IF existingChapter[p] # << >> THEN clock ELSE clock + 1
  /\ Books' = Append(Books, NewRow(p))
  /\ savedChapter' = [savedChapter EXCEPT ![p] = <<NewRow(p)>>]
  /\ immediateQueue' = immediateQueue \o MemoryTasks(p, <<NewRow(p)>>)
  /\ result' = [result EXCEPT ![p] = Result(p, <<NewRow(p)>>, saveError[p])]
  /\ pc' = [pc EXCEPT ![p] = "done"]
  /\ UNCHANGED <<started, dbFailures, input, id, dataStream, draftContent, bookId,
                 existingChapter, newTimestamp, saveError, failuresAtStart, memory,
                 memoryFailures, workflow>>

\* Lines 221-224 and 230-242: the statement execute is waiting for throws; the
\* statement has no effect, the catch sets saveError and execute returns.
DbThrow(p, msg) ==
  /\ pc[p] \in {"selectBook", "selectLatest", "update", "insert"}
  /\ dbFailures < MaxDbFailures
  /\ dbFailures' = dbFailures + 1
  /\ statements' = [statements EXCEPT ![p] = Append(@, "failed")]
  /\ saveError' = [saveError EXCEPT ![p] = "Error saving book chapter: " \o msg]
  /\ result' = [result EXCEPT ![p] =
                  Result(p, savedChapter[p], "Error saving book chapter: " \o msg)]
  /\ pc' = [pc EXCEPT ![p] = "done"]
  /\ UNCHANGED <<Books, uuidCount, started, clock, input, id, dataStream, draftContent,
                 bookId, existingChapter, newTimestamp, savedChapter,
                 failuresAtStart, background, workflow>>

\* ---------------------------------------------------------------- background memory writes
\* What saveChapterToMemoryAsync / saveBookMetadataToMemoryAsync hand to
\* storeContentInMemory (lines 270-309 and 343-380).
MemoryRecord(task) ==
  [userId |-> task.userId,
   type |-> IF task.fn = "saveChapterToMemoryAsync" THEN "document" ELSE "text",
   content_type |-> IF task.fn = "saveChapterToMemoryAsync" THEN "book_chapter"
                    ELSE "book_project",
   book_id |-> task.bookId, book_title |-> task.bookTitle,
   chapter_number |-> task.chapterNumber, content |-> task.content]

RunImmediateAwaited(outcome) ==
  /\ immediateQueue # << >>
  /\ immediateQueue' = Tail(immediateQueue)
  /\ IF outcome = "stored"
     THEN /\ memory' = Append(memory, MemoryRecord(Head(immediateQueue)))
          /\ UNCHANGED <<memoryFailures, result>>
     ELSE /\ memoryFailures < MaxMemoryFailures
          /\ memoryFailures' = memoryFailures + 1
          /\ result' = [p \in Procs |->
               IF result[p] # << >> /\ result[p].bookId = Head(immediateQueue).bookId
               THEN [saveError |-> "Error saving book chapter: " \o outcome] @@ result[p]
               ELSE result[p]]
          /\ UNCHANGED memory
  /\ UNCHANGED <<Books, uuidCount, started, dbFailures, clock, pc, input, id, dataStream,
                 draftContent, bookId, existingChapter, newTimestamp, savedChapter,
                 saveError, statements, failuresAtStart, workflow>>

\* Lines 259-319 and 332-390: the oldest setImmediate callback runs.  Without an
\* API key it returns at once; otherwise storeContentInMemory stores the record,
\* returns false or throws, and the callback logs the outcome.
RunImmediate(outcome) ==
  /\ immediateQueue # << >>
  /\ immediateQueue' = Tail(immediateQueue)
  /\ IF outcome = "stored"
     THEN /\ memory' = Append(memory, MemoryRecord(Head(immediateQueue)))
          /\ UNCHANGED memoryFailures
     ELSE /\ memoryFailures < MaxMemoryFailures
          /\ memoryFailures' = memoryFailures + 1
          /\ UNCHANGED memory
  /\ UNCHANGED <<Books, uuidCount, started, dbFailures, clock, locals, workflow>>

\* ---------------------------------------------------------------- memory service
\* The workflow tools reach the memory service through createMemoryService and
\* ensurePaprUser.  A stored memory is a record: its content and its metadata
\* fields; its id is its position in memory.  Optional fields are read with
\* Field, as mem.metadata?.kind is in the code.
Field(rec, f) == IF f \in DOMAIN rec THEN rec[f] ELSE ""

\* A FormattedMemory as a search returns it.
Formatted(i) == [id |-> i] @@ memory[i]

UserMemories(user) == {i \in DOMAIN memory : memory[i].userId = user}

Min(a, b) == IF a < b THEN a ELSE b

SeqsUpTo(S, n) == UNION {[1..k -> S] : k \in 0..n}

\* memoryService.searchMemories(paprUserId, query, limit): some of the user's
\* memories in some ranking, at most limit of them.
searchMemories(user, limit) ==
  {[k \in DOMAIN r |-> Formatted(r[k])] :
     r \in {q \in SeqsUpTo(UserMemories(user), Min(limit, MaxResults)) :
              \A a, b \in DOMAIN q : q[a] = q[b] => a = b}}

\* memoryService.storeContent(paprUserId, content, type, metadata, userId)
storeContent(mem, user, content, type, metadata) ==
  Append(mem, [userId |-> user, content |-> content, type |-> type] @@ metadata)

\* memoryService.updateMemory(id, {content, metadata: {customMetadata}}): the
\* patched fields replace those of the memory, the others stay.
updateMemory(mem, mid, content, metadata) ==
  [mem EXCEPT ![mid] = [content |-> content] @@ metadata @@ mem[mid]]

\* mems.map(mem => mem.content).join(sep)
JoinContents(mems, sep) ==
  LET j[k \in 0..Len(mems)] ==
        IF k = 0 THEN ""
        ELSE IF k = 1 THEN Field(mems[1], "content")
        ELSE j[k - 1] \o sep \o Field(mems[k], "content")
  IN j[Len(mems)]

\* array.find(pred): the first element that satisfies pred, as a sequence of
\* zero or one elements.
FindFirst(xs, Pred(_)) ==
  LET hits == {k \in DOMAIN xs : Pred(xs[k])}
  IN IF hits = {} THEN << >>
     ELSE <<xs[CHOOSE k \in hits : \A m \in hits : k <= m]>>

\* One external call in the log of the running tool.
Call(fn, about, ok) == [fn |-> fn, about |-> about, ok |-> ok]

\* A workflow tool may start: tools are called one at a time, and every tool
\* of a chat is built with the same session.
ToolIdle(user) ==
  /\ toolCalls < MaxToolCalls
  /\ run.pc = "idle" \/ (run.pc = "done" /\ run.session = user)

\* apiKey and ensurePaprUser at the head of a memory block: no API key, no
\* memory user, or the memory user's id.
MemoryAccess == {"no-key", "no-user", "ok"}

AccessCalls(o) == IF o = "no-key" THEN << >> ELSE <<Call("ensurePaprUser", "", TRUE)>>

\* ---------------------------------------------------------------- createBookPlan
\* The plan input: of the fields of bookPlanningSchema those that decide what
\* is searched, stored and returned; a character is its name and its role.
PlanInput(user, title, characters, skipSearch, skipGate) ==
  [userId |-> user, bookTitle |-> title, mainCharacters |-> characters,
   skipMemorySearch |-> skipSearch, skipApprovalGate |-> skipGate]

\* Lines 526-541: execute starts; the memory search runs unless it is skipped
\* or there is no session user.
PlanStart(in) ==
  /\ ToolIdle(in.userId)
  /\ toolCalls' = toolCalls + 1
  /\ calls' = << >>
  /\ run' = [tool |-> "createBookPlan",
             pc |-> IF ~in.skipMemorySearch /\ in.userId # "" THEN "ensureSearch" ELSE "ids",
             input |-> in, existingBookContext |-> "", existingCharacters |-> << >>,
             i |-> 1, bookId |-> "", dataStream |-> << >>]
  /\ UNCHANGED <<Books, uuidCount, started, dbFailures, clock, locals, background,
                 returned, toolFailures, book_props, propsJobs, confirmed>>

\* Lines 543-551: the API key and the memory user of the search block.
PlanEnsureSearch(o) ==
  /\ run.tool = "createBookPlan" /\ run.pc = "ensureSearch"
  /\ o # "ok" => toolFailures < MaxToolFailures
  /\ toolFailures' = IF o = "ok" THEN toolFailures ELSE toolFailures + 1
  /\ calls' = calls \o AccessCalls(o)
  /\ run' = [run EXCEPT !.pc = IF o = "ok" THEN "searchBook" ELSE "ids"]
  /\ UNCHANGED <<Books, uuidCount, started, dbFailures, clock, locals, background,
                 returned, toolCalls, book_props, propsJobs, confirmed>>

\* Lines 555-564: search for existing book plans.
PlanSearchBook ==
  /\ run.tool = "createBookPlan" /\ run.pc = "searchBook"
  /\ \E bookMemories \in searchMemories(run.input.userId, 10) :
       /\ calls' = Append(calls, Call("searchMemories", "book", TRUE))
       /\ run' = [run EXCEPT
                    !.existingBookContext =
                       IF Len(bookMemories) > 0 THEN JoinContents(bookMemories, "\n\n") ELSE @,
                    !.pc = IF Len(run.input.mainCharacters) > 0 THEN "searchChar" ELSE "ids"]
       /\ UNCHANGED <<Books, uuidCount, started, dbFailures, clock, locals, background,
                      returned, toolCalls, toolFailures, book_props, propsJobs, confirmed>>

\* Lines 567-582: search for the i-th main character.
PlanSearchChar ==
  /\ run.tool = "createBookPlan" /\ run.pc = "searchChar"
  /\ \E charMemories \in searchMemories(run.input.userId, 5) :
       /\ calls' = Append(calls, Call("searchMemories", run.input.mainCharacters[run.i].name, TRUE))
       /\ run' = [run EXCEPT
                    !.existingCharacters =
                       IF Len(charMemories) > 0
                       THEN Append(@, [name |-> run.input.mainCharacters[run.i].name,
                                       existingInfo |-> JoinContents(charMemories, "\n"),
                                       memories |-> charMemories])
                       ELSE @,
                    !.i = @ + 1,
                    !.pc = IF run.i < Len(run.input.mainCharacters) THEN "searchChar" ELSE "ids"]
       /\ UNCHANGED <<Books, uuidCount, started, dbFailures, clock, locals, background,
                      returned, toolCalls, toolFailures, book_props, propsJobs, confirmed>>

\* Lines 590-610: kind and title are written, the bookId is generated and
\* written; the plan is saved to memory when there is a session user.
PlanIds ==
  /\ run.tool = "createBookPlan" /\ run.pc = "ids"
  /\ uuidCount' = uuidCount + 1
  /\ run' = [run EXCEPT
               !.bookId = generateUUID(uuidCount + 1),
               !.dataStream = <<[type |-> "kind", content |-> "book_plan"],
                                [type |-> "title",
                                 content |-> run.input.bookTitle \o " - Story Plan"],
                                [type |-> "id", content |-> generateUUID(uuidCount + 1)]>>,
               !.i = 1,
               !.pc = IF run.input.userId # "" THEN "ensureStore" ELSE "finish"]
  /\ UNCHANGED <<Books, started, dbFailures, clock, locals, background, calls,
                 returned, toolCalls, toolFailures, book_props, propsJobs, confirmed>>

\* Lines 612-620: the API key and the memory user of the save block.
PlanEnsureStore(o) ==
  /\ run.tool = "createBookPlan" /\ run.pc = "ensureStore"
  /\ o # "ok" => toolFailures < MaxToolFailures
  /\ toolFailures' = IF o = "ok" THEN toolFailures ELSE toolFailures + 1
  /\ calls' = calls \o AccessCalls(o)
  /\ run' = [run EXCEPT !.pc = IF o = "ok" THEN "storeBrief" ELSE "finish"]
  /\ UNCHANGED <<Books, uuidCount, started, dbFailures, clock, locals, background,
                 returned, toolCalls, book_props, propsJobs, confirmed>>

\* Lines 622-654: the book brief with the context found in memory.
BookBrief(r) ==
  [content |-> "Book: " \o r.input.bookTitle \o
                 (IF r.existingBookContext # ""
                  THEN "\n--- EXISTING CONTEXT FROM MEMORY ---\n" \o r.existingBookContext
                  ELSE ""),
   metadata |-> [kind |-> "book_brief", book_id |-> r.bookId,
                 book_title |-> r.input.bookTitle, step |-> "planning",
                 status |-> "pending_approval",
                 has_existing_context |-> Len(r.existingBookContext) > 0]]

PlanStoreBrief ==
  /\ run.tool = "createBookPlan" /\ run.pc = "storeBrief"
  /\ calls' = Append(calls, Call("storeContent", "book_brief", TRUE))
  /\ memory' = storeContent(memory, run.input.userId, BookBrief(run).content, "text",
                            BookBrief(run).metadata)
  /\ run' = [run EXCEPT !.pc = IF Len(run.input.mainCharacters) > 0 THEN "saveChar"
                                ELSE "finish"]
  /\ UNCHANGED <<Books, uuidCount, started, dbFailures, clock, locals, immediateQueue,
                 memoryFailures, returned, toolCalls, toolFailures, book_props,
                 propsJobs, confirmed>>

\* Lines 660-676: the bio of a main character and its metadata.
CharacterBio(r, character) ==
  [content |-> "Character: " \o character.name \o "\nRole: " \o character.role,
   metadata |-> [kind |-> "character", book_id |-> r.bookId,
                 book_title |-> r.input.bookTitle, character_name |-> character.name,
                 character_role |-> character.role, step |-> "planning",
                 status |-> "pending_approval"]]

existingCharNone(r, character) == << >>

\* Line 658: existingCharacters.find(ec => ec.name === character.name)
existingChar(r, character) ==
  FindFirst(r.existingCharacters, LAMBDA ec : ec.name = character.name)

\* Lines 657-704: the i-th character bio updates the first memory the search
\* found for that name, or is stored as a new memory.
PlanSaveChar ==
  /\ run.tool = "createBookPlan" /\ run.pc = "saveChar"
  /\ LET character == run.input.mainCharacters[run.i]
         found == existingChar(run, character)
         bio == CharacterBio(run, character)
     IN IF found # << >> /\ Len(found[1].memories) > 0
        THEN /\ calls' = Append(calls, Call("updateMemory", character.name, TRUE))
             /\ memory' = updateMemory(memory, found[1].memories[1].id,
                                       bio.content, bio.metadata)
        ELSE /\ calls' = Append(calls, Call("storeContent", character.name, TRUE))
             /\ memory' = storeContent(memory, run.input.userId, bio.content, "text",
                                       bio.metadata)
  /\ run' = [run EXCEPT !.i = @ + 1,
                        !.pc = IF run.i < Len(run.input.mainCharacters) THEN "saveChar"
                               ELSE "finish"]
  /\ UNCHANGED <<Books, uuidCount, started, dbFailures, clock, locals, immediateQueue,
                 memoryFailures, returned, toolCalls, toolFailures, book_props,
                 propsJobs, confirmed>>

\* Lines 780-799: the value createBookPlan returns.
PlanResult(r) ==
  [tool |-> "createBookPlan", success |-> TRUE, bookId |-> r.bookId,
   bookTitle |-> r.input.bookTitle, mainCharacters |-> r.input.mainCharacters,
   existingContext |->
     [foundBookContext |-> Len(r.existingBookContext) > 0,
      foundCharacters |-> Len(r.existingCharacters),
      characterDetails |-> [k \in DOMAIN r.existingCharacters |->
                              [name |-> r.existingCharacters[k].name,
                               hasExistingInfo |-> TRUE]]],
   approvalRequired |-> ~r.input.skipApprovalGate]

\* Lines 1301-1316: a run of saveCharactersToDatabase before its first SELECT.
PropsJob(user, book, title, characters) ==
  [userId |-> user, bookId |-> book, bookTitle |-> title, characters |-> characters,
   i |-> 1, pc |-> "select"]

\* Lines 772-799: saveCharactersToDatabase is started, not awaited, when there
\* is a session user, and execute returns.  The documents of lines 713-770
\* (autoCreateDocuments) are created by another tool in a try block of their
\* own and touch none of the variables here.
PlanFinish ==
  /\ run.tool = "createBookPlan" /\ run.pc = "finish"
  /\ propsJobs' = IF run.input.userId # "" /\ Len(run.input.mainCharacters) > 0
                  THEN Append(propsJobs, PropsJob(run.input.userId, run.bookId,
                                                  run.input.bookTitle,
                                                  run.input.mainCharacters))
                  ELSE propsJobs
  /\ returned' = Append(returned, PlanResult(run))
  /\ run' = [tool |-> run.tool, pc |-> "done", session |-> run.input.userId]
  /\ calls' = << >>
  /\ UNCHANGED <<Books, uuidCount, started, dbFailures, clock, locals, background,
                 toolCalls, toolFailures, book_props, confirmed>>

\* ---------------------------------------------------------------- saveCharactersToDatabase
PropsExistingNone(job) == {}

\* Lines 1319-1326: SELECT id FROM book_props WHERE user_id, book_id,
\* prop_type = 'character', prop_name ... LIMIT 1
PropsExisting(job) ==
  {k \in 1..Len(book_props) :
     /\ book_props[k].user_id = job.userId
     /\ book_props[k].book_id = job.bookId
     /\ book_props[k].prop_type = "character"
     /\ book_props[k].prop_name = job.characters[job.i].name}

\* Lines 1331-1343: the row the INSERT adds; prop_data is the JSON of the
\* character's description.
PropsRow(job) ==
  [user_id |-> job.userId, book_id |-> job.bookId, book_title |-> job.bookTitle,
   prop_type |-> "character", prop_name |-> job.characters[job.i].name,
   prop_data |-> "{\"role\":\"" \o job.characters[job.i].role \o "\"}"]

\* The job goes on to its next character, or ends after the last one.
PropsAdvance(n, nextPc) ==
  IF nextPc = "select" /\ propsJobs[n].i = Len(propsJobs[n].characters)
  THEN [k \in 1..(Len(propsJobs) - 1) |-> IF k < n THEN propsJobs[k] ELSE propsJobs[k + 1]]
  ELSE [propsJobs EXCEPT ![n] = [@ EXCEPT !.pc = nextPc,
                                          !.i = IF nextPc = "select" THEN @ + 1 ELSE @]]

\* Lines 1319-1328 and 1347-1349: the existence check of the job's current
\* character; a character that has a row is skipped.
PropsSelect(n) ==
  /\ run.pc \in {"idle", "done"}
  /\ n \in DOMAIN propsJobs
  /\ propsJobs[n].pc = "select"
  /\ propsJobs' = PropsAdvance(n, IF PropsExisting(propsJobs[n]) = {} THEN "insert"
                                 ELSE "select")
  /\ UNCHANGED <<Books, uuidCount, started, dbFailures, clock, locals, background,
                 run, calls, returned, toolCalls, toolFailures, book_props, confirmed>>

\* Lines 1330-1346: the INSERT of the job's current character.
PropsInsert(n) ==
  /\ run.pc \in {"idle", "done"}
  /\ n \in DOMAIN propsJobs
  /\ propsJobs[n].pc = "insert"
  /\ book_props' = Append(book_props, PropsRow(propsJobs[n]))
  /\ propsJobs' = PropsAdvance(n, "select")
  /\ UNCHANGED <<Books, uuidCount, started, dbFailures, clock, locals, background,
                 run, calls, returned, toolCalls, toolFailures, confirmed>>

\* Lines 1350-1352: the statement the job is waiting for throws; the error is
\* logged and the job goes on to its next character.
PropsThrow(n) ==
  /\ run.pc \in {"idle", "done"}
  /\ n \in DOMAIN propsJobs
  /\ toolFailures < MaxToolFailures
  /\ toolFailures' = toolFailures + 1
  /\ propsJobs' = PropsAdvance(n, "select")
  /\ UNCHANGED <<Books, uuidCount, started, dbFailures, clock, locals, background,
                 run, calls, returned, toolCalls, book_props, confirmed>>

\* ---------------------------------------------------------------- draftChapter
DraftInput(user, book, chNum, chTitle, text) ==
  [userId |-> user, bookId |-> book, chapterNumber |-> chNum, chapterTitle |-> chTitle,
   chapterText |-> text]

\* Lines 811-830: execute starts and writes kind, title and id.
DraftStart(in) ==
  /\ ToolIdle(in.userId)
  /\ toolCalls' = toolCalls + 1
  /\ calls' = << >>
  /\ run' = [tool |-> "draftChapter",
             pc |-> IF in.userId # "" THEN "ensureStore" ELSE "finish",
             input |-> in, bookId |-> in.bookId, slot |-> 0,
             dataStream |-> <<[type |-> "kind", content |-> "chapter_draft"],
                              [type |-> "title",
                               content |-> "Chapter " \o ToString(in.chapterNumber)
                                             \o ": " \o in.chapterTitle],
                              [type |-> "id",
                               content |-> in.bookId \o "_chapter_"
                                             \o ToString(in.chapterNumber)]>>]
  /\ UNCHANGED <<Books, uuidCount, started, dbFailures, clock, locals, background,
                 returned, toolFailures, book_props, propsJobs, confirmed>>

\* Lines 833-841: the API key and the memory user.
DraftEnsureStore(o) ==
  /\ run.tool = "draftChapter" /\ run.pc = "ensureStore"
  /\ o # "ok" => toolFailures < MaxToolFailures
  /\ toolFailures' = IF o = "ok" THEN toolFailures ELSE toolFailures + 1
  /\ calls' = calls \o AccessCalls(o)
  /\ run' = [run EXCEPT !.pc = IF o = "ok" THEN "store" ELSE "createBook"]
  /\ UNCHANGED <<Books, uuidCount, started, dbFailures, clock, locals, background,
                 returned, toolCalls, book_props, propsJobs, confirmed>>

\* Lines 842-857: the chapter draft memory.
ChapterDraft(in) ==
  [content |-> "Chapter " \o ToString(in.chapterNumber) \o ": " \o in.chapterTitle
                 \o "\n\n" \o in.chapterText,
   metadata |-> [kind |-> "chapter_draft", book_id |-> in.bookId,
                 chapter_number |-> in.chapterNumber, chapter_title |-> in.chapterTitle,
                 step |-> "chapter_drafting", status |-> "pending_approval"]]

DraftStore ==
  /\ run.tool = "draftChapter" /\ run.pc = "store"
  /\ calls' = Append(calls, Call("storeContent", "chapter_draft", TRUE))
  /\ memory' = storeContent(memory, run.input.userId, ChapterDraft(run.input).content,
                            "text", ChapterDraft(run.input).metadata)
  /\ run' = [run EXCEPT !.pc = "createBook"]
  /\ UNCHANGED <<Books, uuidCount, started, dbFailures, clock, locals, immediateQueue,
                 memoryFailures, returned, toolCalls, toolFailures, book_props,
                 propsJobs, confirmed>>

\* Lines 867-874: the input draftChapter hands to createBook.execute; the
\* chapter text goes into bookContext, which createBook only puts in its prompt.
DraftBookInput(user, in) ==
  [userId |-> user, bookId |-> in.bookId, bookTitle |-> "Book " \o in.bookId,
   chapterTitle |-> in.chapterTitle, chapterNumber |-> in.chapterNumber]

\* Lines 862-875: createBook.execute is called and awaited.
DraftCreateBook(p, k) ==
  /\ run.tool = "draftChapter" /\ run.pc = "createBook"
  /\ Execute(p, DraftBookInput(run.input.userId, run.input), k)
  /\ calls' = Append(calls, Call("createBook.execute", "", TRUE))
  /\ run' = [run EXCEPT !.pc = "awaitBook", !.slot = p]
  /\ UNCHANGED <<returned, toolCalls, toolFailures, book_props, propsJobs, confirmed>>

\* Lines 882-891: the value draftChapter returns.
DraftResult(r) ==
  [tool |-> "draftChapter", success |-> TRUE, bookId |-> r.input.bookId,
   chapterNumber |-> r.input.chapterNumber, chapterTitle |-> r.input.chapterTitle,
   approvalRequired |-> TRUE]

\* Lines 875-891: createBook.execute has returned, or the save was skipped or
\* failed; execute returns.
DraftFinish ==
  /\ run.tool = "draftChapter"
  /\ \/ run.pc = "finish"
     \/ run.pc = "awaitBook" /\ pc[run.slot] = "done"
  /\ returned' = Append(returned, DraftResult(run))
  /\ run' = [tool |-> run.tool, pc |-> "done", session |-> run.input.userId]
  /\ calls' = << >>
  /\ UNCHANGED <<Books, uuidCount, started, dbFailures, clock, locals, background,
                 toolCalls, toolFailures, book_props, propsJobs, confirmed>>

\* ---------------------------------------------------------------- segmentChapterIntoScenes
Scene(sid, number, location, timeOfDay, weather) ==
  [sceneId |-> sid, sceneNumber |-> number,
   environment |-> [location |-> location, timeOfDay |-> timeOfDay, weather |-> weather]]

SegmentInput(user, book, chNum, scenes) ==
  [userId |-> user, bookId |-> book, chapterNumber |-> chNum, scenes |-> scenes]

\* Lines 903-922: execute starts and writes kind, title and id.
SegmentStart(in) ==
  /\ ToolIdle(in.userId)
  /\ toolCalls' = toolCalls + 1
  /\ calls' = << >>
  /\ run' = [tool |-> "segmentChapterIntoScenes",
             pc |-> IF in.userId # "" THEN "ensureStore" ELSE "finish",
             input |-> in, bookId |-> in.bookId, i |-> 1,
             dataStream |-> <<[type |-> "kind", content |-> "scene_segmentation"],
                              [type |-> "title",
                               content |-> "Chapter " \o ToString(in.chapterNumber)
                                             \o " - Scene Breakdown"],
                              [type |-> "id",
                               content |-> in.bookId \o "_scenes_ch"
                                             \o ToString(in.chapterNumber)]>>]
  /\ UNCHANGED <<Books, uuidCount, started, dbFailures, clock, locals, background,
                 returned, toolFailures, book_props, propsJobs, confirmed>>

\* Lines 924-932: the API key and the memory user.
SegmentEnsureStore(o) ==
  /\ run.tool = "segmentChapterIntoScenes" /\ run.pc = "ensureStore"
  /\ o # "ok" => toolFailures < MaxToolFailures
  /\ toolFailures' = IF o = "ok" THEN toolFailures ELSE toolFailures + 1
  /\ calls' = calls \o AccessCalls(o)
  /\ run' = [run EXCEPT !.pc = IF o = "ok" /\ Len(run.input.scenes) > 0
                                THEN "storeScene" ELSE "finish"]
  /\ UNCHANGED <<Books, uuidCount, started, dbFailures, clock, locals, background,
                 returned, toolCalls, book_props, propsJobs, confirmed>>

\* Lines 935-954: the memory of a scene.
SceneMemory(in, scene) ==
  [content |-> "Scene " \o ToString(scene.sceneNumber) \o "\n\nEnvironment: "
                 \o scene.environment.location \o " at " \o scene.environment.timeOfDay
                 \o "\nWeather: " \o scene.environment.weather,
   metadata |-> [kind |-> "scene", book_id |-> in.bookId,
                 chapter_number |-> in.chapterNumber, scene_id |-> scene.sceneId,
                 scene_number |-> scene.sceneNumber,
                 location |-> scene.environment.location,
                 time_of_day |-> scene.environment.timeOfDay,
                 weather |-> scene.environment.weather,
                 step |-> "scene_segmentation", status |-> "pending_approval"]]

SegmentStoreScene ==
  /\ run.tool = "segmentChapterIntoScenes" /\ run.pc = "storeScene"
  /\ calls' = Append(calls, Call("storeContent", "scene", TRUE))
  /\ memory' = storeContent(memory, run.input.userId,
                            SceneMemory(run.input, run.input.scenes[run.i]).content, "text",
                            SceneMemory(run.input, run.input.scenes[run.i]).metadata)
  /\ run' = [run EXCEPT !.pc = "storeEnvironment"]
  /\ UNCHANGED <<Books, uuidCount, started, dbFailures, clock, locals, immediateQueue,
                 memoryFailures, returned, toolCalls, toolFailures, book_props,
                 propsJobs, confirmed>>

\* Line 964: `${bookId}_env_${scene.environment.location}_${scene.environment.timeOfDay}`
environmentId(book, environment) ==
  book \o "_env_" \o environment.location \o "_" \o environment.timeOfDay

\* Lines 957-972: the environment draft of a scene.
EnvironmentMemory(in, scene) ==
  [content |-> "Environment: " \o scene.environment.location \o "\n\nTime: "
                 \o scene.environment.timeOfDay \o "\nWeather: "
                 \o scene.environment.weather,
   metadata |-> [kind |-> "environment", book_id |-> in.bookId,
                 environment_id |-> environmentId(in.bookId, scene.environment),
                 location |-> scene.environment.location,
                 time_of_day |-> scene.environment.timeOfDay,
                 weather |-> scene.environment.weather,
                 step |-> "scene_segmentation", status |-> "pending_approval"]]

SegmentStoreEnvironment ==
  /\ run.tool = "segmentChapterIntoScenes" /\ run.pc = "storeEnvironment"
  /\ calls' = Append(calls, Call("storeContent", "environment", TRUE))
  /\ memory' = storeContent(memory, run.input.userId,
                            EnvironmentMemory(run.input, run.input.scenes[run.i]).content,
                            "text",
                            EnvironmentMemory(run.input, run.input.scenes[run.i]).metadata)
  /\ run' = [run EXCEPT !.i = @ + 1,
                        !.pc = IF run.i < Len(run.input.scenes) THEN "storeScene"
                               ELSE "finish"]
  /\ UNCHANGED <<Books, uuidCount, started, dbFailures, clock, locals, immediateQueue,
                 memoryFailures, returned, toolCalls, toolFailures, book_props,
                 propsJobs, confirmed>>

\* Lines 981-995: the value segmentChapterIntoScenes returns.
SegmentResult(r) ==
  [tool |-> "segmentChapterIntoScenes", success |-> TRUE, bookId |-> r.input.bookId,
   chapterNumber |-> r.input.chapterNumber, scenesCreated |-> Len(r.input.scenes),
   scenes |-> [k \in DOMAIN r.input.scenes |->
                 [sceneId |-> r.input.scenes[k].sceneId,
                  environment |-> r.input.scenes[k].environment.location,
                  timeOfDay |-> r.input.scenes[k].environment.timeOfDay]],
   approvalRequired |-> TRUE]

SegmentFinish ==
  /\ run.tool = "segmentChapterIntoScenes" /\ run.pc = "finish"
  /\ returned' = Append(returned, SegmentResult(run))
  /\ run' = [tool |-> run.tool, pc |-> "done", session |-> run.input.userId]
  /\ calls' = << >>
  /\ UNCHANGED <<Books, uuidCount, started, dbFailures, clock, locals, background,
                 toolCalls, toolFailures, book_props, propsJobs, confirmed>>

\* ---------------------------------------------------------------- createCharacterPortraits
PortraitCharacter(name, props) == [characterName |-> name, props |-> props]

PortraitInput(user, book, characters, generate) ==
  [userId |-> user, bookId |-> book, characters |-> characters,
   generatePortraits |-> generate]

\* Lines 1047-1052: the locals of one iteration of the character loop.
PortraitLocals ==
  [portraitUrl |-> "", existingPortrait |-> FALSE, existingCharacters |-> << >>,
   globalCharacters |-> << >>, characterDescription |-> "", j |-> 1]

\* Lines 1026-1052: execute starts, writes kind, title and id and takes the
\* first character.
PortraitsStart(in) ==
  /\ ToolIdle(in.userId)
  /\ toolCalls' = toolCalls + 1
  /\ calls' = << >>
  /\ run' = [tool |-> "createCharacterPortraits",
             pc |-> IF Len(in.characters) = 0 THEN "finish"
                    ELSE IF in.userId # "" THEN "ensureSearch" ELSE "generate",
             input |-> in, bookId |-> in.bookId, i |-> 1, results |-> << >>,
             dataStream |-> <<[type |-> "kind", content |-> "batch_character_portraits"],
                              [type |-> "title",
                               content |-> "Batch Character Creation ("
                                             \o ToString(Len(in.characters))
                                             \o " characters)"],
                              [type |-> "id",
                               content |-> in.bookId \o "_batch_characters_"
                                             \o ToString(clock)]>>]
            @@ PortraitLocals
  /\ UNCHANGED <<Books, uuidCount, started, dbFailures, clock, locals, background,
                 returned, toolFailures, book_props, propsJobs, confirmed>>

\* Lines 1054-1062: the API key and the memory user of the search block.
PortraitsEnsureSearch(o) ==
  /\ run.tool = "createCharacterPortraits" /\ run.pc = "ensureSearch"
  /\ o # "ok" => toolFailures < MaxToolFailures
  /\ toolFailures' = IF o = "ok" THEN toolFailures ELSE toolFailures + 1
  /\ calls' = calls \o AccessCalls(o)
  /\ run' = [run EXCEPT !.pc = IF o = "ok" THEN "searchBook" ELSE "generate"]
  /\ UNCHANGED <<Books, uuidCount, started, dbFailures, clock, locals, background,
                 returned, toolCalls, book_props, propsJobs, confirmed>>

\* Lines 1089-1093: a character memory of that name with a portrait.
IsPortraitOf(mem, name, book) ==
  /\ Field(mem, "kind") = "character"
  /\ Field(mem, "character_name") = name
  /\ Field(mem, "portrait_url") # ""

\* Lines 1072-1077: a character memory of that name and this book with a portrait.
IsPortraitInBook(mem, name, book) ==
  IsPortraitOf(mem, name, book) /\ Field(mem, "book_id") = book

\* Lines 1066-1077 and 1100-1106: the search for the character in this book;
\* a portrait that is found is taken over.
PortraitsSearchBook ==
  /\ run.tool = "createCharacterPortraits" /\ run.pc = "searchBook"
  /\ \E found \in searchMemories(run.input.userId, 10) :
       /\ calls' = Append(calls, Call("searchMemories",
                                      run.input.characters[run.i].characterName, TRUE))
       /\ LET existingCharacter ==
                FindFirst(found, LAMBDA mem :
                            IsPortraitInBook(mem, run.input.characters[run.i].characterName,
                                             run.input.bookId))
          IN run' = [run EXCEPT
                       !.existingCharacters = found,
                       !.portraitUrl = IF existingCharacter # << >>
                                       THEN existingCharacter[1].portrait_url ELSE @,
                       !.existingPortrait = existingCharacter # << >>,
                       !.pc = IF existingCharacter # << >> THEN "generate" ELSE "searchGlobal"]
       /\ UNCHANGED <<Books, uuidCount, started, dbFailures, clock, locals, background,
                      returned, toolCalls, toolFailures, book_props, propsJobs, confirmed>>

\* Lines 1080-1106: the search across all books.
PortraitsSearchGlobal ==
  /\ run.tool = "createCharacterPortraits" /\ run.pc = "searchGlobal"
  /\ \E found \in searchMemories(run.input.userId, 15) :
       /\ calls' = Append(calls, Call("searchMemories",
                                      run.input.characters[run.i].characterName, TRUE))
       /\ LET existingCharacter ==
                FindFirst(found, LAMBDA mem :
                            IsPortraitOf(mem, run.input.characters[run.i].characterName,
                                         run.input.bookId))
          IN run' = [run EXCEPT
                       !.globalCharacters = found,
                       !.portraitUrl = IF existingCharacter # << >>
                                       THEN existingCharacter[1].portrait_url ELSE @,
                       !.existingPortrait = existingCharacter # << >>,
                       !.pc = "generate"]
       /\ UNCHANGED <<Books, uuidCount, started, dbFailures, clock, locals, background,
                      returned, toolCalls, toolFailures, book_props, propsJobs, confirmed>>

\* Line 1153: the character is saved to memory when there is a session user
\* and a portrait.
AfterGenerate(r, url) ==
  IF r.input.userId # "" /\ url # "" THEN "ensureStore" ELSE "push"

GenerateAlways(r) == r.input.generatePortraits

\* Line 1115: if (!existingPortrait && generatePortraits)
Generate(r) == ~r.existingPortrait /\ r.input.generatePortraits

\* Lines 1114-1121: a portrait is generated when none was found and portraits
\* are requested; the description of the character is read first.
PortraitsGenerate ==
  /\ run.tool = "createCharacterPortraits" /\ run.pc = "generate"
  /\ run' = [run EXCEPT !.pc = IF Generate(run) THEN "describe"
                                ELSE AfterGenerate(run, run.portraitUrl)]
  /\ UNCHANGED <<Books, uuidCount, started, dbFailures, clock, locals, background,
                 calls, returned, toolCalls, toolFailures, book_props, propsJobs,
                 confirmed>>

\* Lines 1233-1292: what getCharacterDescription can return: the content of a
\* character memory of that name (of this book when its first search returns
\* one), `${characterName} from the book` when it finds none or a call of it
\* throws, or '' when it has no API key or no session user.
getCharacterDescription(user, book, name) ==
  {"", name \o " from the book"}
  \cup {memory[k].content : k \in {m \in UserMemories(user) :
                                    /\ Field(memory[m], "kind") = "character"
                                    /\ Field(memory[m], "character_name") = name
                                    /\ Field(memory[m], "content") # ""}}

PortraitsDescribe ==
  /\ run.tool = "createCharacterPortraits" /\ run.pc = "describe"
  /\ \E description \in getCharacterDescription(run.input.userId, run.input.bookId,
                                                run.input.characters[run.i].characterName) :
       /\ calls' = Append(calls, Call("getCharacterDescription",
                                      run.input.characters[run.i].characterName, TRUE))
       /\ run' = [run EXCEPT !.characterDescription = description, !.pc = "image"]
       /\ UNCHANGED <<Books, uuidCount, started, dbFailures, clock, locals, background,
                      returned, toolCalls, toolFailures, book_props, propsJobs, confirmed>>

\* The imageUrl of a generated portrait; "" when the image tool returns none.
ImageUrls(r) ==
  {"", "https://img/" \o ToString(toolCalls) \o "-" \o ToString(r.i) \o ".png"}

\* Lines 1123-1146: the image tool is executed; its imageUrl, if any, becomes
\* the portrait.
PortraitsImage ==
  /\ run.tool = "createCharacterPortraits" /\ run.pc = "image"
  /\ \E imageUrl \in ImageUrls(run) :
       /\ calls' = Append(calls, Call("createImage.execute",
                                      run.input.characters[run.i].characterName, TRUE))
       /\ run' = [run EXCEPT !.portraitUrl = IF imageUrl # "" THEN imageUrl ELSE @,
                             !.pc = AfterGenerate(run, IF imageUrl # "" THEN imageUrl
                                                       ELSE run.portraitUrl)]
       /\ UNCHANGED <<Books, uuidCount, started, dbFailures, clock, locals, background,
                      returned, toolCalls, toolFailures, book_props, propsJobs, confirmed>>

\* Lines 1155-1163: the API key and the memory user of the save block.
PortraitsEnsureStore(o) ==
  /\ run.tool = "createCharacterPortraits" /\ run.pc = "ensureStore"
  /\ o # "ok" => toolFailures < MaxToolFailures
  /\ toolFailures' = IF o = "ok" THEN toolFailures ELSE toolFailures + 1
  /\ calls' = calls \o AccessCalls(o)
  /\ run' = [run EXCEPT !.pc = IF o = "ok" THEN "storeCharacter" ELSE "push"]
  /\ UNCHANGED <<Books, uuidCount, started, dbFailures, clock, locals, background,
                 returned, toolCalls, book_props, propsJobs, confirmed>>

\* Lines 1164-1180: the character memory with its portrait.
PortraitMemory(r) ==
  [content |-> "Character: " \o r.input.characters[r.i].characterName
                 \o "\nPortrait: " \o r.portraitUrl,
   metadata |-> [kind |-> "character", book_id |-> r.input.bookId,
                 character_name |-> r.input.characters[r.i].characterName,
                 portrait_url |-> r.portraitUrl,
                 step |-> "character_creation", status |-> "pending_approval"]]

PortraitsStoreCharacter ==
  /\ run.tool = "createCharacterPortraits" /\ run.pc = "storeCharacter"
  /\ calls' = Append(calls, Call("storeContent",
                                 run.input.characters[run.i].characterName, TRUE))
  /\ memory' = storeContent(memory, run.input.userId, PortraitMemory(run).content,
                            "document", PortraitMemory(run).metadata)
  /\ run' = [run EXCEPT !.j = 1,
                        !.pc = IF Len(run.input.characters[run.i].props) > 0
                               THEN "storeProp" ELSE "push"]
  /\ UNCHANGED <<Books, uuidCount, started, dbFailures, clock, locals, immediateQueue,
                 memoryFailures, returned, toolCalls, toolFailures, book_props,
                 propsJobs, confirmed>>

\* Lines 1185-1201: the memory of a prop of the character.
PropMemory(r, prop) ==
  [content |-> "Prop: " \o prop,
   metadata |-> [kind |-> "prop", book_id |-> r.input.bookId,
                 character_name |-> r.input.characters[r.i].characterName,
                 prop_name |-> prop,
                 step |-> "character_creation", status |-> "pending_approval"]]

PortraitsStoreProp ==
  /\ run.tool = "createCharacterPortraits" /\ run.pc = "storeProp"
  /\ calls' = Append(calls, Call("storeContent",
                                 run.input.characters[run.i].props[run.j], TRUE))
  /\ memory' = storeContent(memory, run.input.userId,
                            PropMemory(run, run.input.characters[run.i].props[run.j]).content,
                            "text",
                            PropMemory(run, run.input.characters[run.i].props[run.j]).metadata)
  /\ run' = [run EXCEPT !.j = @ + 1,
                        !.pc = IF run.j < Len(run.input.characters[run.i].props)
                               THEN "storeProp" ELSE "push"]
  /\ UNCHANGED <<Books, uuidCount, started, dbFailures, clock, locals, immediateQueue,
                 memoryFailures, returned, toolCalls, toolFailures, book_props,
                 propsJobs, confirmed>>

\* Lines 1211-1216: the result of the character.
PortraitResult(r) ==
  [characterName |-> r.input.characters[r.i].characterName,
   portraitUrl |-> r.portraitUrl, existingPortrait |-> r.existingPortrait,
   propsCreated |-> Len(r.input.characters[r.i].props)]

\* Lines 1046-1052 and 1211-1217: the result is pushed and the loop takes the
\* next character.
PortraitsPush ==
  /\ run.tool = "createCharacterPortraits" /\ run.pc = "push"
  /\ run' = PortraitLocals @@
            [run EXCEPT !.results = Append(@, PortraitResult(run)),
                        !.i = @ + 1,
                        !.pc = IF run.i = Len(run.input.characters) THEN "finish"
                               ELSE IF run.input.userId # "" THEN "ensureSearch"
                               ELSE "generate"]
  /\ UNCHANGED <<Books, uuidCount, started, dbFailures, clock, locals, background,
                 calls, returned, toolCalls, toolFailures, book_props, propsJobs,
                 confirmed>>

\* Lines 1219-1228: the value createCharacterPortraits returns.
PortraitsResult(r) ==
  [tool |-> "createCharacterPortraits", success |-> TRUE, bookId |-> r.input.bookId,
   charactersProcessed |-> Len(r.results), results |-> r.results,
   approvalRequired |-> TRUE]

PortraitsFinish ==
  /\ run.tool = "createCharacterPortraits" /\ run.pc = "finish"
  /\ returned' = Append(returned, PortraitsResult(run))
  /\ run' = [tool |-> run.tool, pc |-> "done", session |-> run.input.userId]
  /\ calls' = << >>
  /\ UNCHANGED <<Books, uuidCount, started, dbFailures, clock, locals, background,
                 toolCalls, toolFailures, book_props, propsJobs, confirmed>>

\* ---------------------------------------------------------------- failing external calls
\* The external call the running tool is waiting for.
PendingCall(r) ==
  CASE r.pc \in {"ensureSearch", "ensureStore"} -> Call("ensurePaprUser", "", FALSE)
    [] r.pc \in {"searchBook", "searchChar", "searchGlobal"} ->
         Call("searchMemories",
              IF r.pc = "searchBook" /\ r.tool = "createBookPlan" THEN "book"
              ELSE IF r.tool = "createBookPlan" THEN r.input.mainCharacters[r.i].name
              ELSE r.input.characters[r.i].characterName, FALSE)
    [] r.pc = "saveChar" ->
         Call(IF \E k \in DOMAIN r.existingCharacters :
                   r.existingCharacters[k].name = r.input.mainCharacters[r.i].name
              THEN "updateMemory" ELSE "storeContent",
              r.input.mainCharacters[r.i].name, FALSE)
    [] r.pc = "image" -> Call("createImage.execute", r.input.characters[r.i].characterName,
                              FALSE)
    [] OTHER -> Call("storeContent", r.pc, FALSE)

CatchPcRethrows(r) == "thrown"

\* Where the running tool goes on after the catch of the try block it is in.
CatchPc(r) ==
  CASE r.tool = "createBookPlan" ->
         IF r.pc \in {"ensureSearch", "searchBook", "searchChar"} THEN "ids" ELSE "finish"
    [] r.tool = "createCharacterPortraits" ->
         IF r.pc \in {"ensureSearch", "searchBook", "searchGlobal"} THEN "generate"
         ELSE IF r.pc = "image" THEN AfterGenerate(r, r.portraitUrl)
         ELSE "push"
    [] OTHER -> "finish"

\* The call the running tool is waiting for throws: the catch of its try block
\* logs the error and the tool goes on behind the block (lines 585-587, 707-709,
\* 877-879, 976-978, 1109-1111, 1147-1149, 1206-1208).
ToolThrow ==
  /\ run.pc \in {"ensureSearch", "searchBook", "searchChar", "searchGlobal", "ensureStore",
                 "storeBrief", "saveChar", "store", "storeScene", "storeEnvironment",
                 "image", "storeCharacter", "storeProp"}
  /\ toolFailures < MaxToolFailures
  /\ toolFailures' = toolFailures + 1
  /\ calls' = Append(calls, PendingCall(run))
  /\ run' = [run EXCEPT !.pc = CatchPc(run)]
  /\ UNCHANGED <<Books, uuidCount, started, dbFailures, clock, locals, background,
                 returned, toolCalls, book_props, propsJobs, confirmed>>

\* ---------------------------------------------------------------- the user
\* An approval gate: a tool returned approvalRequired = true for a book.
Gate(res) == [bookId |-> res.bookId, tool |-> res.tool]

Gates == {Gate(returned[k]) : k \in {m \in DOMAIN returned : returned[m].approvalRequired}}

\* The user confirms what a tool returned for a book.
Approve(g) ==
  /\ run.pc = "done"
  /\ g \in Gates \ confirmed
  /\ confirmed' = confirmed \cup {g}
  /\ UNCHANGED <<Books, uuidCount, started, dbFailures, clock, locals, background,
                 run, calls, returned, toolCalls, toolFailures, book_props, propsJobs>>

\* ---------------------------------------------------------------- optimizeImageCreation
\* String helpers: startsWith, includes and the character classes of the
\* regular expressions of lines 65-66.
StartsWithAt(s, i, prefix) ==
  /\ i >= 1
  /\ i + Len(prefix) - 1 <= Len(s)
  /\ SubSeq(s, i, i + Len(prefix) - 1) = prefix

Includes(s, sub) == \E i \in 1..Len(s) : StartsWithAt(s, i, sub)

IsSpace(c) == c \in {" ", "\n", "\t"}

Base64Chars ==
  {"A", "B", "C", "D", "E", "F", "G", "H", "I", "J", "K", "L", "M", "N", "O", "P", "Q",
   "R", "S", "T", "U", "V", "W", "X", "Y", "Z", "a", "b", "c", "d", "e", "f", "g", "h",
   "i", "j", "k", "l", "m", "n", "o", "p", "q", "r", "s", "t", "u", "v", "w", "x", "y",
   "z", "0", "1", "2", "3", "4", "5", "6", "7", "8", "9", "+", "/", "="}

\* The character classes [^\s], [^;] and [A-Za-z0-9+/=].
InClass(c, class) ==
  CASE class = "[^\\s]" -> ~IsSpace(c)
    [] class = "[^;]" -> c # ";"
    [] OTHER -> c \in Base64Chars

\* The last index of the longest run of characters of the class that starts
\* at p (p - 1 when there is none): a greedy character class.
RECURSIVE RunEnd(_, _, _)
RunEnd(s, p, class) ==
  IF p <= Len(s) /\ InClass(SubSeq(s, p, p), class) THEN RunEnd(s, p + 1, class)
  ELSE p - 1

Extensions == <<"jpg", "jpeg", "png", "gif", "webp">>

\* Line 65: the end of the match of /(https?:\/\/[^\s]+\.(jpg|jpeg|png|gif|webp))/
\* that starts at i, or 0: [^\s]+ is greedy and gives back characters until a
\* dot and an extension follow; the first extension of the alternation wins.
\* The inputs of the model are lower case, so the i flag is not modelled.
ImageMatchEnd(s, i) ==
  LET p == IF StartsWithAt(s, i, "http://") THEN i + Len("http://")
           ELSE IF StartsWithAt(s, i, "https://") THEN i + Len("https://")
           ELSE 0
      q == RunEnd(s, p, "[^\\s]")
      ends == {k \in p..q : \E e \in DOMAIN Extensions :
                              StartsWithAt(s, k + 1, "." \o Extensions[e])}
  IN IF p = 0 \/ ends = {} THEN 0
     ELSE LET k == CHOOSE m \in ends : \A n \in ends : n <= m
              e == CHOOSE m \in DOMAIN Extensions :
                     /\ StartsWithAt(s, k + 1, "." \o Extensions[m])
                     /\ \A n \in 1..(m - 1) : ~StartsWithAt(s, k + 1, "." \o Extensions[n])
          IN k + 1 + Len(Extensions[e])

\* Line 66: the end of the match of /(data:image\/[^;]+;base64,[A-Za-z0-9+/=]+)/
\* that starts at i, or 0.
DataUrlMatchEnd(s, i) ==
  LET p == IF StartsWithAt(s, i, "data:image/") THEN i + Len("data:image/") ELSE 0
      q == RunEnd(s, p, "[^;]")
      b == q + Len(";base64,") + 1
      e == RunEnd(s, b, "[A-Za-z0-9+/=]")
  IN IF p = 0 \/ q < p \/ ~StartsWithAt(s, q + 1, ";base64,") \/ e < b THEN 0 ELSE e

\* String.match with the g flag: the matches from left to right, each search
\* starting behind the match before it.
MatchEnd(s, i, pattern) ==
  IF pattern = "image" THEN ImageMatchEnd(s, i) ELSE DataUrlMatchEnd(s, i)

RECURSIVE MatchesFrom(_, _, _)
MatchesFrom(s, i, pattern) ==
  IF i > Len(s) THEN << >>
  ELSE IF MatchEnd(s, i, pattern) # 0
       THEN <<SubSeq(s, i, MatchEnd(s, i, pattern))>>
              \o MatchesFrom(s, MatchEnd(s, i, pattern) + 1, pattern)
       ELSE MatchesFrom(s, i + 1, pattern)

\* Lines 63-68: the image URLs of one memory.
ImagesOf(mem) ==
  MatchesFrom(Field(mem, "content"), 1, "image")
    \o MatchesFrom(Field(mem, "content"), 1, "dataUrl")

RECURSIVE FlatImages(_)
FlatImages(mems) ==
  IF mems = << >> THEN << >>
  ELSE (IF Includes(Field(Head(mems), "content"), "http")
           \/ Includes(Field(Head(mems), "content"), "data:image")
        THEN ImagesOf(Head(mems)) ELSE << >>) \o FlatImages(Tail(mems))

MaxSeedsUnlimited(xs) == xs

\* slice(0, 4) of lines 71, 94 and 121.
MaxSeeds(xs) == SubSeq(xs, 1, Min(Len(xs), 4))

\* Lines 61-71: the images a memory search contributes.
MemoryImages(mems) == MaxSeeds(FlatImages(mems))

\* Lines 34-44: the seed images that are complete.
IsValidSeed(imageUrl) ==
  /\ imageUrl # ""
  /\ imageUrl # "data:image"
  /\ ~(StartsWithAt(imageUrl, 1, "data:") /\ ~Includes(imageUrl, ";base64,"))

RECURSIVE FilterSeeds(_)
FilterSeeds(xs) ==
  IF xs = << >> THEN << >>
  ELSE (IF IsValidSeed(Head(xs)) THEN <<Head(xs)>> ELSE << >>) \o FilterSeeds(Tail(xs))

OptimizerInput(user, description, seedImages, aspectRatio) ==
  [userId |-> user, description |-> description, seedImages |-> seedImages,
   aspectRatio |-> aspectRatio]

\* Lines 89, 126, 144: the approach follows from the number of seed images.
ApproachPc(validSeedImages) ==
  IF Len(validSeedImages) > 1 THEN "merge"
  ELSE IF Len(validSeedImages) = 1 THEN "edit" ELSE "generate"

\* What the optimizer leaves unchanged: everything but its own execution.
outsideOptimizer ==
  <<Books, uuidCount, started, dbFailures, clock, locals, background, book_props,
    propsJobs, confirmed>>

\* Lines 20-47: optimizeImageCreation starts and filters the seed images.
OptimizeStart(in) ==
  /\ run.pc \in {"idle", "done"}
  /\ toolCalls < MaxOptimizations
  /\ toolCalls' = toolCalls + 1
  /\ calls' = << >>
  /\ run' = [tool |-> "optimizeImageCreation",
             pc |-> IF Len(FilterSeeds(in.seedImages)) = 0
                    THEN (IF in.userId # "" THEN "ensureSearch" ELSE "generate")
                    ELSE ApproachPc(FilterSeeds(in.seedImages)),
             input |-> in, validSeedImages |-> FilterSeeds(in.seedImages),
             mergedImageUrl |-> "", error |-> ""]
  /\ UNCHANGED <<returned, toolFailures>>
  /\ UNCHANGED outsideOptimizer

\* Lines 51-55: the API key and the memory user; without them there is no search.
OptimizeEnsure(o) ==
  /\ run.tool = "optimizeImageCreation" /\ run.pc = "ensureSearch"
  /\ calls' = calls \o AccessCalls(o)
  /\ run' = [run EXCEPT !.pc = IF o = "ok" THEN "searchImages" ELSE "generate"]
  /\ UNCHANGED <<returned, toolCalls, toolFailures>>
  /\ UNCHANGED outsideOptimizer

\* Lines 58-78: the memory search for seed images.
OptimizeSearch ==
  /\ run.tool = "optimizeImageCreation" /\ run.pc = "searchImages"
  /\ \E memories \in searchMemories(run.input.userId, 10) :
       /\ calls' = Append(calls, Call("searchMemories", run.input.description, TRUE))
       /\ run' = [run EXCEPT
                    !.validSeedImages = IF Len(MemoryImages(memories)) > 0
                                        THEN @ \o MemoryImages(memories) ELSE @,
                    !.pc = ApproachPc(IF Len(MemoryImages(memories)) > 0
                                      THEN run.validSeedImages \o MemoryImages(memories)
                                      ELSE run.validSeedImages)]
  /\ UNCHANGED <<returned, toolCalls, toolFailures>>
  /\ UNCHANGED outsideOptimizer

\* Lines 94-110: the seed images, at most four, are merged.
OptimizeMerge ==
  /\ run.tool = "optimizeImageCreation" /\ run.pc = "merge"
  /\ calls' = Append(calls, Call("mergeImages", MaxSeeds(run.validSeedImages), TRUE))
  /\ run' = [run EXCEPT !.mergedImageUrl = "https://img/merged.png", !.pc = "editMerged"]
  /\ UNCHANGED <<returned, toolCalls, toolFailures>>
  /\ UNCHANGED outsideOptimizer

OptimizedResult(imageUrl, approach, seedImagesUsed, reasoning, r) ==
  [tool |-> "optimizeImageCreation", imageUrl |-> imageUrl, approach |-> approach,
   seedImagesUsed |-> seedImagesUsed, reasoning |-> reasoning,
   actualPrompt |-> r.input.description, thrown |-> ""]

\* Lines 112-124 and 130-142: the merged image or the single seed image is
\* edited with the description, and the result is returned.
OptimizeEdit ==
  /\ run.tool = "optimizeImageCreation" /\ run.pc \in {"edit", "editMerged"}
  /\ calls' = Append(calls, Call("editImage",
                                 IF run.pc = "edit" THEN run.validSeedImages[1]
                                 ELSE run.mergedImageUrl, TRUE))
  /\ returned' = Append(returned,
       IF run.pc = "edit"
       THEN OptimizedResult("https://img/edited.png", "edit", run.validSeedImages,
                            "Edited single seed image with new prompt", run)
       ELSE OptimizedResult("https://img/edited.png", "merge_edit",
                            MaxSeeds(run.validSeedImages),
                            "Merged " \o ToString(Len(run.validSeedImages))
                              \o " seed images and edited with new prompt", run))
  /\ run' = [run EXCEPT !.pc = "done"]
  /\ UNCHANGED <<toolCalls, toolFailures>>
  /\ UNCHANGED outsideOptimizer

\* Lines 148-159: without seed images the image is generated.
OptimizeGenerate ==
  /\ run.tool = "optimizeImageCreation" /\ run.pc = "generate"
  /\ calls' = Append(calls, Call("generateImage", run.input.aspectRatio, TRUE))
  /\ returned' = Append(returned,
       OptimizedResult("https://img/generated.png", "generate", << >>,
                       "Generated new image from prompt (no seed images available)", run))
  /\ run' = [run EXCEPT !.pc = "done"]
  /\ UNCHANGED <<toolCalls, toolFailures>>
  /\ UNCHANGED outsideOptimizer

\* aspectRatio || '1:1' of line 170.
FallbackAspectRatio(r) == IF r.input.aspectRatio = "" THEN "1:1" ELSE r.input.aspectRatio

\* Lines 166-179: after an error of the chosen approach generateImage is called.
OptimizeFallback ==
  /\ run.tool = "optimizeImageCreation" /\ run.pc = "fallback"
  /\ calls' = Append(calls, Call("generateImage", FallbackAspectRatio(run), TRUE))
  /\ returned' = Append(returned,
       OptimizedResult("https://img/generated.png", "generate", << >>,
                       "Fallback to generate due to error: " \o run.error, run))
  /\ run' = [run EXCEPT !.pc = "done"]
  /\ UNCHANGED <<toolCalls, toolFailures>>
  /\ UNCHANGED outsideOptimizer

ImageErrors == {"image service down"}

\* The call optimizeImageCreation is waiting for.
OptimizerCall(r) ==
  CASE r.pc = "ensureSearch" -> Call("ensurePaprUser", "", FALSE)
    [] r.pc = "searchImages" -> Call("searchMemories", r.input.description, FALSE)
    [] r.pc = "merge" -> Call("mergeImages", MaxSeeds(r.validSeedImages), FALSE)
    [] r.pc = "edit" -> Call("editImage", r.validSeedImages[1], FALSE)
    [] r.pc = "editMerged" -> Call("editImage", r.mergedImageUrl, FALSE)
    [] r.pc = "generate" -> Call("generateImage", r.input.aspectRatio, FALSE)
    [] OTHER -> Call("generateImage", FallbackAspectRatio(r), FALSE)

\* Lines 81-83, 162-164 and 180-183: a failed memory search is logged and the
\* optimizer goes on without seed images; an error of the chosen approach leads
\* to the fallback; an error of the fallback is thrown to the caller.
OptimizerCatchPc(r) ==
  IF r.pc \in {"ensureSearch", "searchImages"} THEN "generate"
  ELSE IF r.pc = "fallback" THEN "thrown" ELSE "fallback"

OptimizeThrow(msg) ==
  /\ run.tool = "optimizeImageCreation"
  /\ run.pc \in {"ensureSearch", "searchImages", "merge", "edit", "editMerged",
                 "generate", "fallback"}
  /\ toolFailures < MaxImageFailures
  /\ toolFailures' = toolFailures + 1
  /\ calls' = Append(calls, OptimizerCall(run))
  /\ run' = [run EXCEPT !.pc = OptimizerCatchPc(run), !.error = msg]
  /\ returned' = IF OptimizerCatchPc(run) = "thrown"
                 THEN Append(returned,
                             [tool |-> "optimizeImageCreation",
                              thrown |-> "Image creation completely failed: " \o msg])
                 ELSE returned
  /\ UNCHANGED toolCalls
  /\ UNCHANGED outsideOptimizer

\* ---------------------------------------------------------------- specifications
InputOf(user, bid, title, chTitle, chNum) ==
  [userId |-> user, bookId |-> bid, bookTitle |-> title,
   chapterTitle |-> chTitle, chapterNumber |-> chNum]

\* The bookId input is one the caller can know: none, one made by another tool,
\* or the bookId of a stored row (found with searchBooks).
KnownBookIds == NoBookId \cup {Books[i].bookId : i \in 1..Len(Books)}

Inputs == {InputOf(u, b, t, ct, n) :
             u \in UserIds, b \in KnownBookIds, t \in BookTitles,
             ct \in ChapterTitles, n \in ChapterNumbers}

Step(p) ==
  \/ SelectBook(p)
  \/ SelectLatest(p)
  \/ UpdateLatest(p)
  \/ Insert(p)
  \/ \E msg \in DbErrors : DbThrow(p, msg)

\* createBook called as a tool of its own, not by draftChapter.
ExecuteTool(p, in, k) == Execute(p, in, k) /\ UNCHANGED workflow

Next ==
  \/ \E p \in Procs, in \in Inputs, k \in 1..Len(TextStreams) : ExecuteTool(p, in, k)
  \/ \E p \in Procs : Step(p)
  \/ \E o \in StoreOutcomes : RunImmediate(o)

Spec == Init /\ [][Next]_vars

\* One execution at a time: an execution starts only when no other is running.
NoneRunning == \A q \in Procs : pc[q] \in {"idle", "done"}

ExecuteAlone(p, in, k) == NoneRunning /\ ExecuteTool(p, in, k)

NextSeq ==
  \/ \E p \in Procs, in \in Inputs, k \in 1..Len(TextStreams) : ExecuteAlone(p, in, k)
  \/ \E p \in Procs : Step(p)
  \/ \E o \in StoreOutcomes : RunImmediate(o)

SpecSeq == Init /\ [][NextSeq]_vars

\* ---------------------------------------------------------------- the workflow
WorkflowUsers == {"", "u1"}

MainCharacterLists ==
  {<<[name |-> "Ann", role |-> "hero"]>>,
   <<[name |-> "Ann", role |-> "hero"], [name |-> "Ann", role |-> "villain"]>>,
   <<[name |-> "Ann", role |-> "hero"], [name |-> "Bob", role |-> "friend"]>>}

SceneLists ==
  {<<Scene("s1", 1, "park", "morning", "sunny"), Scene("s2", 2, "park", "morning", "sunny")>>,
   <<Scene("s1", 1, "park", "morning", "sunny"), Scene("s2", 2, "park", "morning", "rainy")>>,
   <<Scene("s1", 1, "park", "morning", "sunny"), Scene("s2", 2, "cave", "night", "sunny")>>}

PortraitCharacterLists ==
  {<<PortraitCharacter("Ann", <<"hat">>)>>,
   <<PortraitCharacter("Ann", << >>), PortraitCharacter("Bob", << >>)>>}

ChapterTexts == {"abc", "xyz"}

\* The bookId a workflow tool is called with: the id of a book planned before
\* the session, or one a createBookPlan execution has returned.
WorkflowBookIds ==
  {"book-1"} \cup {returned[k].bookId :
                     k \in {m \in DOMAIN returned : returned[m].tool = "createBookPlan"}}

PlanInputs ==
  {PlanInput(u, t, cs, ss, sg) :
     u \in WorkflowUsers, t \in BookTitles, cs \in MainCharacterLists,
     ss \in BOOLEAN, sg \in BOOLEAN}

DraftInputs ==
  {DraftInput(u, b, n, ct, text) :
     u \in WorkflowUsers, b \in WorkflowBookIds, n \in {1}, ct \in ChapterTitles,
     text \in ChapterTexts}

SegmentInputs ==
  {SegmentInput(u, b, n, ss) :
     u \in WorkflowUsers, b \in WorkflowBookIds, n \in {1}, ss \in SceneLists}

\* Portraits are made for the characters of the user's books: a character of
\* one book may appear in another one.
PortraitBookIds == WorkflowBookIds \cup {"book-2"}

PortraitInputs ==
  {PortraitInput(u, b, cs, g) :
     u \in WorkflowUsers, b \in PortraitBookIds, cs \in PortraitCharacterLists,
     g \in BOOLEAN}

\* The agent calls the workflow tools one at a time, in any order; createBook
\* runs when draftChapter calls it; background work runs in between.
NextWorkflow ==
  \/ \E in \in PlanInputs : PlanStart(in)
  \/ \E o \in MemoryAccess : PlanEnsureSearch(o)
  \/ PlanSearchBook
  \/ PlanSearchChar
  \/ PlanIds
  \/ \E o \in MemoryAccess : PlanEnsureStore(o)
  \/ PlanStoreBrief
  \/ PlanSaveChar
  \/ PlanFinish
  \/ \E in \in DraftInputs : DraftStart(in)
  \/ \E o \in MemoryAccess : DraftEnsureStore(o)
  \/ DraftStore
  \/ \E p \in Procs, k \in 1..Len(TextStreams) : DraftCreateBook(p, k)
  \/ \E p \in Procs : SelectLatest(p)
  \/ \E p \in Procs : UpdateLatest(p)
  \/ \E p \in Procs : Insert(p)
  \/ \E p \in Procs, msg \in DbErrors : DbThrow(p, msg)
  \/ \E o \in StoreOutcomes : RunImmediate(o)
  \/ DraftFinish
  \/ \E in \in SegmentInputs : SegmentStart(in)
  \/ \E o \in MemoryAccess : SegmentEnsureStore(o)
  \/ SegmentStoreScene
  \/ SegmentStoreEnvironment
  \/ SegmentFinish
  \/ \E in \in PortraitInputs : PortraitsStart(in)
  \/ \E o \in MemoryAccess : PortraitsEnsureSearch(o)
  \/ PortraitsSearchBook
  \/ PortraitsSearchGlobal
  \/ PortraitsGenerate
  \/ PortraitsDescribe
  \/ PortraitsImage
  \/ \E o \in MemoryAccess : PortraitsEnsureStore(o)
  \/ PortraitsStoreCharacter
  \/ PortraitsStoreProp
  \/ PortraitsPush
  \/ PortraitsFinish
  \/ ToolThrow
  \/ \E g \in Gates : Approve(g)

SpecWorkflow == Init /\ [][NextWorkflow]_vars

\* createBookPlan and the saveCharactersToDatabase jobs it leaves behind: the
\* jobs are the only code that reads or writes book_props.
NextPlan ==
  \/ \E in \in PlanInputs : PlanStart(in)
  \/ \E o \in MemoryAccess : PlanEnsureSearch(o)
  \/ PlanSearchBook
  \/ PlanSearchChar
  \/ PlanIds
  \/ \E o \in MemoryAccess : PlanEnsureStore(o)
  \/ PlanStoreBrief
  \/ PlanSaveChar
  \/ PlanFinish
  \/ \E n \in 1..MaxToolCalls : PropsSelect(n)
  \/ \E n \in 1..MaxToolCalls : PropsInsert(n)
  \/ \E n \in 1..MaxToolCalls : PropsThrow(n)
  \/ ToolThrow

SpecPlan == Init /\ [][NextPlan]_vars

\* The inputs of optimizeImageCreation: seed images that are complete, empty
\* or incomplete data URLs, up to five of them.
SeedImageLists ==
  {<< >>,
   <<"data:image">>,
   <<"", "data:text/plain,abc">>,
   <<"https://img/a.png">>,
   <<"data:image/png;base64,QUJD", "data:image/png">>,
   <<"https://img/a.png", "https://img/b.png">>,
   <<"https://img/a.png", "https://img/b.png", "https://img/c.png", "https://img/d.png",
     "https://img/e.png">>}

OptimizerInputs ==
  {OptimizerInput(u, "a hero", seeds, ratio) :
     u \in WorkflowUsers, seeds \in SeedImageLists, ratio \in {"", "3:4"}}

ImageMemory(user, content) ==
  [userId |-> user, content |-> content, type |-> "document", kind |-> "character"]

\* What the memory service holds for the user when the optimizer starts:
\* nothing, a text, a portrait, or more images than the optimizer takes.
MemoryStocks ==
  {<< >>,
   <<ImageMemory("u1", "Character: Ann")>>,
   <<ImageMemory("u1", "Character: Ann\nPortrait: https://img/1-1.png")>>,
   <<ImageMemory("u1", "https://img/a.jpeg.webp https://img/b.gif data:image/png;base64,QUJD https://img/c.jpg https://img/d.png")>>}

\* The state optimizeImageCreation starts in: as Init, with the memories the
\* memory service already holds.
InitOptimizer ==
  /\ Books = << >>
  /\ uuidCount = 0
  /\ started = 0
  /\ dbFailures = 0
  /\ clock = 0
  /\ pc = [p \in Procs |-> "idle"]
  /\ input = [p \in Procs |-> << >>]
  /\ id = [p \in Procs |-> ""]
  /\ dataStream = [p \in Procs |-> << >>]
  /\ draftContent = [p \in Procs |-> ""]
  /\ bookId = [p \in Procs |-> ""]
  /\ existingChapter = [p \in Procs |-> << >>]
  /\ newTimestamp = [p \in Procs |-> 0]
  /\ savedChapter = [p \in Procs |-> << >>]
  /\ saveError = [p \in Procs |-> ""]
  /\ result = [p \in Procs |-> << >>]
  /\ statements = [p \in Procs |-> << >>]
  /\ failuresAtStart = [p \in Procs |-> 0]
  /\ immediateQueue = << >>
  /\ memory \in MemoryStocks
  /\ memoryFailures = 0
  /\ run = [tool |-> "none", pc |-> "idle"]
  /\ calls = << >>
  /\ returned = << >>
  /\ toolCalls = 0
  /\ toolFailures = 0
  /\ book_props = << >>
  /\ propsJobs = << >>
  /\ confirmed = {}

NextOptimizer ==
  \/ \E in \in OptimizerInputs : OptimizeStart(in)
  \/ \E o \in MemoryAccess : OptimizeEnsure(o)
  \/ OptimizeSearch
  \/ OptimizeMerge
  \/ OptimizeEdit
  \/ OptimizeGenerate
  \/ OptimizeFallback
  \/ \E msg \in ImageErrors : OptimizeThrow(msg)

SpecOptimizer == InitOptimizer /\ [][NextOptimizer]_vars

\* ---------------------------------------------------------------- DataStreamHandler
\* src/components/message/data-stream-handler.tsx.  The component's state is
\* held in `run`: the chat status of useChat, the dataStream state, the
\* lastProcessedIndex ref (a 0-based index, -1 at mount), the artifact of
\* useArtifact, the values the last render saw (`rendered`; the data stream
\* only grows, so its length stands for it) and the effects that render left
\* to run (`pending`).  `calls` is the log of the parts the second effect has
\* dispatched.  An effect runs after a render in which one of its
\* dependencies changed, the first effect before the second, with the
\* values of that render; stream events may arrive in between.
MaxParts == 3

StreamParts ==
  {[type |-> "kind", data |-> "book"],
   [type |-> "data-id", data |-> "doc-1"],
   [type |-> "data-title", data |-> "T"],
   [type |-> "data-clear", data |-> ""],
   [type |-> "data-status", data |-> "streaming"],
   [type |-> "data-text-delta", data |-> "a"],
   [type |-> "data-finish", data |-> ""],
   [type |-> "data-error", data |-> "boom"]}

initialArtifactData ==
  [documentId |-> "init", title |-> "", kind |-> "text", content |-> "",
   status |-> "idle", isVisible |-> FALSE]

\* What a render reads: the dependencies of the two effects.
Deps(r) ==
  [status |-> r.status, artifactStatus |-> r.artifact.status,
   length |-> Len(r.dataStream)]

\* Lines 65-78: the component after its first render; both effects have run
\* (the chat is ready, the artifact idle and the data stream empty).
HandlerMounted ==
  LET r == [tool |-> "DataStreamHandler", pc |-> "mounted", status |-> "ready",
            dataStream |-> << >>, lastProcessedIndex |-> -1,
            artifact |-> initialArtifactData]
  IN [tool |-> r.tool, pc |-> r.pc, status |-> r.status,
      dataStream |-> r.dataStream, lastProcessedIndex |-> r.lastProcessedIndex,
      artifact |-> r.artifact, rendered |-> Deps(r), pending |-> {}]

outsideHandler ==
  <<Books, uuidCount, started, dbFailures, clock, locals, background, returned,
    toolCalls, toolFailures, book_props, propsJobs, confirmed>>

\* useChat: a message is sent.
ChatSubmit ==
  /\ run.status \in {"ready", "error"}
  /\ run' = [run EXCEPT !.status = "submitted"]
  /\ UNCHANGED <<calls, outsideHandler>>

\* useChat: the first chunk of the response was written to the message.
ChatStreaming ==
  /\ run.status = "submitted"
  /\ run' = [run EXCEPT !.status = "streaming"]
  /\ UNCHANGED <<calls, outsideHandler>>

\* useChat: the response ended, was stopped, or failed.
ChatEnd(status) ==
  /\ run.status \in {"submitted", "streaming"}
  /\ run' = [run EXCEPT !.status = status]
  /\ UNCHANGED <<calls, outsideHandler>>

\* Lines 69-72: onData appends the part to the dataStream state.
onData(dataPart) ==
  /\ run.status \in {"submitted", "streaming"}
  /\ Len(run.dataStream) < MaxParts
  /\ run' = [run EXCEPT !.dataStream = Append(@, dataPart)]
  /\ UNCHANGED <<calls, outsideHandler>>

\* The effects whose dependencies differ between two renders (lines 95, 684).
ChangedEffects(before, now) ==
  (IF before.status # now.status \/ before.artifactStatus # now.artifactStatus
   THEN {"statusEffect"} ELSE {})
  \cup (IF before.length # now.length THEN {"streamEffect"} ELSE {})

\* A render.  `setters` are the effects that run again because a setter in
\* their dependency array (setArtifact, setMetadata, setTitle,
\* setThinkingState) is a new function in this render.
Render(setters) ==
  /\ run.pending = {}
  /\ ChangedEffects(run.rendered, Deps(run)) \cup setters # {}
  /\ run' = [run EXCEPT !.rendered = Deps(run),
                        !.pending = ChangedEffects(run.rendered, Deps(run)) \cup setters]
  /\ UNCHANGED <<calls, outsideHandler>>

\* Lines 87-95: the chat stopped while the artifact is still streaming.
StatusEffect ==
  /\ "statusEffect" \in run.pending
  /\ run' = [run EXCEPT
       !.pending = @ \ {"statusEffect"},
       !.artifact = IF run.rendered.status # "streaming"
                       /\ run.rendered.artifactStatus = "streaming"
                    THEN [@ EXCEPT !.status = "idle"] ELSE @]
  /\ UNCHANGED <<calls, outsideHandler>>

\* Line 100: dataStream.slice(lastProcessedIndex.current + 1), reading every
\* part again.
newDeltasAll(stream, last) == stream

\* Line 100: dataStream.slice(lastProcessedIndex.current + 1).
newDeltas(stream, last) == SubSeq(stream, last + 2, Len(stream))

\* Lines 114-116, finding no error part.
errorDeltaNone(deltas) == << >>

\* Lines 114-116: newDeltas.find(part => part.type === 'data-error'), as the
\* sequence of zero or one part found.
errorDelta(deltas) ==
  LET errors == SelectSeq(deltas, LAMBDA part : part.type = "data-error")
  IN IF errors = << >> THEN << >> ELSE <<errors[1]>>

\* Line 136: the type without its 'data-' prefix.
dataType(dataPart) ==
  IF StartsWithAt(dataPart.type, 1, "data-")
  THEN SubSeq(dataPart.type, 6, Len(dataPart.type)) ELSE dataPart.type

\* Lines 164-225: the switch over dataType, as the artifact it leaves.
Dispatched(draftArtifact, dataPart) ==
  LET type == dataType(dataPart)
  IN CASE type = "id" ->
            [draftArtifact EXCEPT !.documentId = dataPart.data, !.status = "streaming"]
       [] type = "title" ->
            [draftArtifact EXCEPT !.title = dataPart.data, !.status = "streaming"]
       [] type = "kind" ->
            [draftArtifact EXCEPT !.kind = dataPart.data, !.status = "streaming"]
       [] type = "clear" ->
            [draftArtifact EXCEPT !.content = "", !.status = "streaming"]
       [] type = "status" -> [draftArtifact EXCEPT !.status = dataPart.data]
       [] type = "text-delta" ->
            [draftArtifact EXCEPT !.content = @ \o dataPart.data, !.status = "streaming"]
       [] type = "finish" -> [draftArtifact EXCEPT !.status = "idle"]
       [] OTHER -> draftArtifact

\* Line 132: newDeltas.forEach, in order.
DispatchAll(draftArtifact, deltas) ==
  LET a[i \in 0..Len(deltas)] ==
        IF i = 0 THEN draftArtifact ELSE Dispatched(a[i - 1], deltas[i])
  IN a[Len(deltas)]

\* One entry of the dispatch log: the part, its 0-based index in the data
\* stream, and the index the effect run that dispatched it began at.
Dispatch(index, dataPart, from) ==
  [fn |-> dataType(dataPart), index |-> index, data |-> dataPart.data, from |-> from]

\* Lines 97-684: the second effect, on the data stream of the last render.
StreamEffect ==
  /\ run.pending = {"streamEffect"}
  /\ LET stream == SubSeq(run.dataStream, 1, run.rendered.length)
         last == run.lastProcessedIndex
         deltas == newDeltas(stream, last)
         first == Len(stream) - Len(deltas)
     IN IF stream = << >>
        THEN /\ run' = [run EXCEPT !.pending = {}]
             /\ UNCHANGED calls
        ELSE IF errorDelta(deltas) # << >>
        THEN /\ run' = [run EXCEPT
                  !.pending = {},
                  !.lastProcessedIndex = Len(stream) - 1,
                  !.artifact = [@ EXCEPT !.status = "idle", !.isVisible = TRUE]]
             /\ UNCHANGED calls
        ELSE /\ run' = [run EXCEPT
                  !.pending = {},
                  !.lastProcessedIndex = Len(stream) - 1,
                  !.artifact = DispatchAll(@, deltas)]
             /\ calls' = calls \o [i \in 1..Len(deltas) |->
                                     Dispatch(first + i - 1, deltas[i], first)]
  /\ UNCHANGED outsideHandler

Effects == {"statusEffect", "streamEffect"}

ChatEnds == {"ready", "error"}

\* Everything outside the component of `run` is as in Init.
InitHandler ==
  /\ Books = << >>
  /\ uuidCount = 0
  /\ started = 0
  /\ dbFailures = 0
  /\ clock = 0
  /\ pc = [p \in Procs |-> "idle"]
  /\ input = [p \in Procs |-> << >>]
  /\ id = [p \in Procs |-> ""]
  /\ dataStream = [p \in Procs |-> << >>]
  /\ draftContent = [p \in Procs |-> ""]
  /\ bookId = [p \in Procs |-> ""]
  /\ existingChapter = [p \in Procs |-> << >>]
  /\ newTimestamp = [p \in Procs |-> 0]
  /\ savedChapter = [p \in Procs |-> << >>]
  /\ saveError = [p \in Procs |-> ""]
  /\ result = [p \in Procs |-> << >>]
  /\ statements = [p \in Procs |-> << >>]
  /\ failuresAtStart = [p \in Procs |-> 0]
  /\ immediateQueue = << >>
  /\ memory = << >>
  /\ memoryFailures = 0
  /\ run = HandlerMounted
  /\ calls = << >>
  /\ returned = << >>
  /\ toolCalls = 0
  /\ toolFailures = 0
  /\ book_props = << >>
  /\ propsJobs = << >>
  /\ confirmed = {}

NextHandler ==
  \/ ChatSubmit
  \/ ChatStreaming
  \/ \E status \in ChatEnds : ChatEnd(status)
  \/ \E dataPart \in StreamParts : onData(dataPart)
  \/ \E setters \in SUBSET Effects : Render(setters)
  \/ StatusEffect
  \/ StreamEffect

SpecHandler == InitHandler /\ [][NextHandler]_vars

\* React runs a render after a state change and the effects that render
\* left; a render that only a new setter function would cause need not come.
SpecHandlerFair ==
  /\ SpecHandler
  /\ WF_vars(Render({}))
  /\ WF_vars(StatusEffect)
  /\ WF_vars(StreamEffect)

\* ---------------------------------------------------------------- authorized
\* authConfig.callbacks.authorized of src/app/illustrations/page.tsx, lines
\* 46-82.  auth is the session or null, written as a sequence of zero or one
\* session; a session's user is a sequence of zero or one user.  The answer
\* is true, or a redirect to a path.
MaxRequests == 2

Auths == {<< >>, <<[user |-> << >>]>>, <<[user |-> <<"u1">>]>>}

Pathnames ==
  {"/", "/chat/1", "/api/chat", "/log", "/login", "/login/reset", "/loginx",
   "/register", "/landing", "/landing/pricing", "/onboarding", "/onboarding/2",
   "/subscription", "/usage", "/memories/1"}

startsWith(s, prefix) == StartsWithAt(s, 1, prefix)

Allow == [allow |-> TRUE, redirect |-> ""]

Redirect(path) == [allow |-> FALSE, redirect |-> path]

\* Line 48, treating no path as a chat path.
isOnChatNever(pathname) == FALSE

\* Line 48.
isOnChat(pathname) ==
  /\ startsWith(pathname, "/")
  /\ ~startsWith(pathname, "/subscription")
  /\ ~startsWith(pathname, "/usage")
  /\ ~startsWith(pathname, "/memories")
  /\ ~startsWith(pathname, "/login")
  /\ ~startsWith(pathname, "/register")
  /\ ~startsWith(pathname, "/landing")
  /\ ~startsWith(pathname, "/onboarding")

\* Lines 46-82.
authorized(auth, pathname) ==
  LET isLoggedIn == auth # << >> /\ auth[1].user # << >>
      isOnRegister == startsWith(pathname, "/register")
      isOnLogin == startsWith(pathname, "/login")
      isOnLanding == startsWith(pathname, "/landing")
      isOnOnboarding == startsWith(pathname, "/onboarding")
      isOnSubscription == startsWith(pathname, "/subscription")
      isOnUsage == startsWith(pathname, "/usage")
      isOnMemories == startsWith(pathname, "/memories")
  IN IF isLoggedIn /\ (isOnLogin \/ isOnRegister \/ isOnLanding) THEN Redirect("/")
     ELSE IF isOnRegister \/ isOnLogin \/ isOnLanding THEN Allow
     ELSE IF isOnOnboarding
     THEN (IF isLoggedIn THEN Allow ELSE Redirect("/login"))
     ELSE IF isOnSubscription \/ isOnUsage \/ isOnMemories \/ isOnChat(pathname)
     THEN (IF isLoggedIn THEN Allow ELSE Redirect("/landing"))
     ELSE IF isLoggedIn THEN Redirect("/")
     ELSE Allow

\* The middleware answers one request; `returned` keeps the requests and
\* their answers, oldest first.
Authorize(auth, pathname) ==
  /\ Len(returned) < MaxRequests
  /\ returned' = Append(returned, [auth |-> auth, pathname |-> pathname,
                                   response |-> authorized(auth, pathname)])
  /\ UNCHANGED <<Books, uuidCount, started, dbFailures, clock, locals, background,
                 run, calls, toolCalls, toolFailures, book_props, propsJobs, confirmed>>

NextAuthorized == \E auth \in Auths, pathname \in Pathnames : Authorize(auth, pathname)

SpecAuthorized == Init /\ [][NextAuthorized]_vars

\* ---------------------------------------------------------------- SubscriptionProvider
\* SubscriptionProvider of src/app/illustrations/page.tsx, lines 140-309.  The
\* provider's state is held in `run`: the session of useSession, the
\* syncAttemptedRef ref, the subscription state with its loading and error
\* flags, the plan the server holds, and `fetches`, the fetchSubscription
\* calls made so far with where each stands.  `calls` is the log of the
\* requests sent.  Each await of fetchSubscription is a point where another
\* call may start or finish; a GET is answered with the plan the server holds
\* when the request is sent.
MaxFetches == 3

MaxSessionChanges == 2

Sessions ==
  {[status |-> "loading", user |-> << >>],
   [status |-> "unauthenticated", user |-> << >>],
   [status |-> "authenticated", user |-> <<"u1">>]}

Plans == {"free", "pro"}

\* The body of GET /api/user/subscription for a plan.
SubscriptionData(plan) ==
  [subscriptionStatus |-> IF plan = "free" THEN "free" ELSE "active",
   subscriptionPlan |-> plan,
   hasActiveSubscription |-> plan # "free"]

\* Lines 144-148 and 225-231: the provider after its first render and effect
\* run, the session still loading.
ProviderMounted ==
  [tool |-> "SubscriptionProvider", pc |-> "mounted",
   session |-> [status |-> "loading", user |-> << >>],
   changes |-> 0,
   syncAttempted |-> FALSE,
   subscription |-> SubscriptionData("free"),
   subscriptionLoading |-> TRUE,
   subscriptionError |-> "",
   serverPlan |-> "free",
   fetches |-> << >>]

Request(method, url, call, changes) ==
  [fn |-> method \o " " \o url, about |-> call, changes |-> changes]

\* Line 167, syncing whenever it is asked to.
syncWantedAlways(shouldSync, attempted) == shouldSync

\* Line 167: shouldSync && !syncAttemptedRef.current.
syncWanted(shouldSync, attempted) == shouldSync /\ ~attempted

\* Lines 158-176: fetchSubscription from its start to its first await, as the
\* provider state it leaves.
fetchSubscription(r, shouldSync) ==
  IF r.session.user = << >> THEN r
  ELSE LET call == Len(r.fetches) + 1
           sync == syncWanted(shouldSync, r.syncAttempted)
       IN [r EXCEPT
            !.subscriptionLoading = TRUE,
            !.subscriptionError = "",
            !.syncAttempted = IF sync THEN TRUE ELSE @,
            !.fetches = Append(@, [call |-> call, changes |-> r.changes,
                                   shouldSync |-> shouldSync,
                                   pc |-> IF sync THEN "sync" ELSE "fetch",
                                   response |-> IF sync THEN << >>
                                                ELSE <<SubscriptionData(r.serverPlan)>>,
                                   outcome |-> ""])]

\* The request fetchSubscription sends before its first await.
FirstRequest(r, shouldSync) ==
  IF r.session.user = << >> THEN << >>
  ELSE IF syncWanted(shouldSync, r.syncAttempted)
  THEN <<Request("POST", "/api/subscription/sync", Len(r.fetches) + 1, r.changes)>>
  ELSE <<Request("GET", "/api/user/subscription", Len(r.fetches) + 1, r.changes)>>

outsideProvider ==
  <<Books, uuidCount, started, dbFailures, clock, locals, background, returned,
    toolCalls, toolFailures, book_props, propsJobs, confirmed>>

\* Lines 225-249: the session changed and the effect runs.
SessionEffect(session) ==
  /\ run.changes < MaxSessionChanges
  /\ session # run.session \/ session.user # << >>
  /\ session.user # << >> => Len(run.fetches) < MaxFetches
  /\ LET reset == [run EXCEPT !.session = session, !.changes = @ + 1,
                              !.syncAttempted = FALSE]
     IN IF session.status = "loading"
        THEN run' = reset /\ UNCHANGED calls
        ELSE IF session.user = << >>
        THEN /\ run' = [reset EXCEPT !.subscription = SubscriptionData("free"),
                                     !.subscriptionLoading = FALSE]
             /\ UNCHANGED calls
        ELSE /\ run' = fetchSubscription(reset, FALSE)
             /\ calls' = calls \o FirstRequest(reset, FALSE)
  /\ UNCHANGED outsideProvider

\* Lines 299: refreshSubscription, fetchSubscription(true).
refreshSubscription ==
  /\ Len(run.fetches) < MaxFetches
  /\ run.session.user # << >>
  /\ run' = fetchSubscription(run, TRUE)
  /\ calls' = calls \o FirstRequest(run, TRUE)
  /\ UNCHANGED outsideProvider

\* Lines 252-262: the server's plan changed and the real-time update of the
\* subscription table arrives.
RealtimeUpdate(plan) ==
  /\ Len(run.fetches) < MaxFetches
  /\ run.session.user # << >>
  /\ plan # run.serverPlan
  /\ run' = fetchSubscription([run EXCEPT !.serverPlan = plan], FALSE)
  /\ calls' = calls \o FirstRequest(run, FALSE)
  /\ UNCHANGED outsideProvider

\* Lines 169-179: the sync request is over (a failure is caught and logged)
\* and the subscription is requested.
SyncDone(call) ==
  /\ call \in 1..Len(run.fetches)
  /\ run.fetches[call].pc = "sync"
  /\ run' = [run EXCEPT !.fetches[call].pc = "fetch",
                        !.fetches[call].response = <<SubscriptionData(run.serverPlan)>>]
  /\ calls' = Append(calls, Request("GET", "/api/user/subscription", call,
                                    run.fetches[call].changes))
  /\ UNCHANGED outsideProvider

\* Lines 178-198: the response arrives; data is stored, or the error is, and
\* finally loading is cleared.
FetchDone(call, ok) ==
  /\ call \in 1..Len(run.fetches)
  /\ run.fetches[call].pc = "fetch"
  /\ run' = [run EXCEPT
       !.fetches[call].pc = "done",
       !.fetches[call].outcome = IF ok THEN "ok" ELSE "error",
       !.subscription = IF ok THEN run.fetches[call].response[1] ELSE @,
       !.subscriptionError = IF ok THEN @ ELSE "Failed to fetch subscription status",
       !.subscriptionLoading = FALSE]
  /\ UNCHANGED <<calls, outsideProvider>>

InitProvider ==
  /\ Books = << >>
  /\ uuidCount = 0
  /\ started = 0
  /\ dbFailures = 0
  /\ clock = 0
  /\ pc = [p \in Procs |-> "idle"]
  /\ input = [p \in Procs |-> << >>]
  /\ id = [p \in Procs |-> ""]
  /\ dataStream = [p \in Procs |-> << >>]
  /\ draftContent = [p \in Procs |-> ""]
  /\ bookId = [p \in Procs |-> ""]
  /\ existingChapter = [p \in Procs |-> << >>]
  /\ newTimestamp = [p \in Procs |-> 0]
  /\ savedChapter = [p \in Procs |-> << >>]
  /\ saveError = [p \in Procs |-> ""]
  /\ result = [p \in Procs |-> << >>]
  /\ statements = [p \in Procs |-> << >>]
  /\ failuresAtStart = [p \in Procs |-> 0]
  /\ immediateQueue = << >>
  /\ memory = << >>
  /\ memoryFailures = 0
  /\ run = ProviderMounted
  /\ calls = << >>
  /\ returned = << >>
  /\ toolCalls = 0
  /\ toolFailures = 0
  /\ book_props = << >>
  /\ propsJobs = << >>
  /\ confirmed = {}

NextProvider ==
  \/ \E session \in Sessions : SessionEffect(session)
  \/ refreshSubscription
  \/ \E plan \in Plans : RealtimeUpdate(plan)
  \/ \E call \in 1..MaxFetches : SyncDone(call)
  \/ \E call \in 1..MaxFetches, ok \in BOOLEAN : FetchDone(call, ok)

SpecProvider == InitProvider /\ [][NextProvider]_vars

\* ---------------------------------------------------------------- PreviewMessage
\* PurePreviewMessage of src/components/message/message.tsx, lines 690-840:
\* the effect that opens the book artifact for createBook results.  `run`
\* holds the parts of the assistant message (no experimental_artifacts), the
\* processedCreateBookResults ref and the artifact that is open (a sequence
\* of zero or one artifact); `calls` is the log of the setArtifact calls.
\* The effect runs after a render in which the message changed (`seen` is the
\* number of parts of the message its last run saw); several parts may
\* arrive before one render.
MaxMessageParts == 3

\* What createBook returns for a chapter whose save succeeded or failed.
CreateBookOutput(book, chapterNumber, ok) ==
  ResultOf(InputOf("u1", book, "T", "Ch", chapterNumber), "uuid-1", "abc",
           IF ok THEN <<[bookId |-> book]>> ELSE << >>,
           IF ok THEN "" ELSE "Error saving book chapter: db")

ToolPart(output) ==
  [type |-> "tool-createBook", state |-> "output-available", output |-> <<output>>]

MessageParts ==
  {ToolPart(CreateBookOutput(book, n, ok)) :
     book \in {"book-1"}, n \in {1, 2}, ok \in BOOLEAN}
  \cup {[type |-> "tool-createBook", state |-> "input-available", output |-> << >>],
        [type |-> "text", state |-> "done", output |-> << >>]}

PreviewMounted ==
  [tool |-> "PreviewMessage", pc |-> "mounted", parts |-> << >>, seen |-> 0,
   processedCreateBookResults |-> {}, artifact |-> << >>]

outsidePreview ==
  <<Books, uuidCount, started, dbFailures, clock, locals, background, returned,
    toolCalls, toolFailures, book_props, propsJobs, confirmed>>

\* The message of the chat gets one more part.
PartAdded(part) ==
  /\ Len(run.parts) < MaxMessageParts
  /\ run' = [run EXCEPT !.parts = Append(@, part)]
  /\ UNCHANGED <<calls, outsidePreview>>

\* Lines 785-790, taking only results that say they were saved.
IsCreateBookResultSaved(part) ==
  /\ part.type = "tool-createBook"
  /\ part.state = "output-available"
  /\ part.output # << >>
  /\ part.output[1].bookId # ""
  /\ "saved" \in DOMAIN part.output[1]
  /\ part.output[1].saved

\* Lines 785-790: part.type === 'tool-createBook' && part.state ===
\* 'output-available' && part.output?.bookId && part.output?.saved !== false.
IsCreateBookResult(part) ==
  /\ part.type = "tool-createBook"
  /\ part.state = "output-available"
  /\ part.output # << >>
  /\ part.output[1].bookId # ""
  /\ ("saved" \in DOMAIN part.output[1] => part.output[1].saved # FALSE)

\* Lines 794 and 802: `${output.bookId}-${output.chapterNumber}`.
resultId(output) == output.bookId \o "-" \o ToString(output.chapterNumber)

\* Lines 816-835: the artifact handed to setArtifact.
BookArtifact(output) ==
  [title |-> "book: " \o output.bookTitle,
   documentId |-> output.bookId,
   kind |-> "book",
   content |-> [bookId |-> output.bookId, bookTitle |-> output.bookTitle,
                chapterNumber |-> output.chapterNumber,
                chapterTitle |-> output.chapterTitle],
   isVisible |-> TRUE,
   status |-> "idle"]

\* Lines 754-840: one run of the effect, after a render in which the message
\* is not the one the last run saw.
AutoOpenEffect ==
  LET createBookResults == SelectSeq(run.parts, IsCreateBookResult)
      newResults ==
        SelectSeq(createBookResults,
                  LAMBDA part : resultId(part.output[1]) \notin run.processedCreateBookResults)
  IN /\ run.seen # Len(run.parts)
     /\ IF newResults # << >>
        THEN LET output == newResults[Len(newResults)].output[1]
             IN /\ run' = [run EXCEPT
                      !.seen = Len(run.parts),
                      !.processedCreateBookResults = @ \cup {resultId(output)},
                      !.artifact = <<BookArtifact(output)>>]
                /\ calls' = Append(calls, [fn |-> "setArtifact",
                                           about |-> resultId(output),
                                           saved |-> "saved" \in DOMAIN output])
        ELSE /\ run' = [run EXCEPT !.seen = Len(run.parts)]
             /\ UNCHANGED calls
     /\ UNCHANGED outsidePreview

InitPreview ==
  /\ Books = << >>
  /\ uuidCount = 0
  /\ started = 0
  /\ dbFailures = 0
  /\ clock = 0
  /\ pc = [p \in Procs |-> "idle"]
  /\ input = [p \in Procs |-> << >>]
  /\ id = [p \in Procs |-> ""]
  /\ dataStream = [p \in Procs |-> << >>]
  /\ draftContent = [p \in Procs |-> ""]
  /\ bookId = [p \in Procs |-> ""]
  /\ existingChapter = [p \in Procs |-> << >>]
  /\ newTimestamp = [p \in Procs |-> 0]
  /\ savedChapter = [p \in Procs |-> << >>]
  /\ saveError = [p \in Procs |-> ""]
  /\ result = [p \in Procs |-> << >>]
  /\ statements = [p \in Procs |-> << >>]
  /\ failuresAtStart = [p \in Procs |-> 0]
  /\ immediateQueue = << >>
  /\ memory = << >>
  /\ memoryFailures = 0
  /\ run = PreviewMounted
  /\ calls = << >>
  /\ returned = << >>
  /\ toolCalls = 0
  /\ toolFailures = 0
  /\ book_props = << >>
  /\ propsJobs = << >>
  /\ confirmed = {}

NextPreview ==
  \/ \E part \in MessageParts : PartAdded(part)
  \/ AutoOpenEffect

SpecPreview == InitPreview /\ [][NextPreview]_vars

\* ---------------------------------------------------------------- properties
SameChapter(r, s) ==
  r.bookId = s.bookId /\ r.chapterNumber = s.chapterNumber /\ r.userId = s.userId

RowIndexes == 1..Len(Books)

\* Execution p inserts its row in this step (and returns).
Inserts(p) == pc[p] = "insert" /\ pc'[p] = "done" /\ savedChapter'[p] # << >>

\* Execution p returns in this step.
Returns(p) == pc[p] # "done" /\ pc'[p] = "done"

SameRead(p, q) ==
  \/ existingChapter[p] = << >> /\ existingChapter[q] = << >>
  \/ /\ existingChapter[p] # << >>
     /\ existingChapter[q] # << >>
     /\ existingChapter[p][1].id = existingChapter[q][1].id

IsLatest(rows, rid) == \E i \in 1..Len(rows) : rows[i].id = rid /\ rows[i].is_latest

\* C1: when saves run one after another, no chapter (bookId, chapterNumber,
\* userId) ever has two rows marked is_latest.
C1_AtMostOneLatest ==
  \A i, j \in RowIndexes :
    (SameChapter(Books[i], Books[j]) /\ Books[i].is_latest /\ Books[j].is_latest) => i = j

C1_Witness ==
  /\ NoneRunning
  /\ \E i, j \in RowIndexes :
       /\ i # j
       /\ SameChapter(Books[i], Books[j])
       /\ ~Books[i].is_latest
       /\ Books[j].is_latest

\* C2: when two interleaved saves of one chapter have read the same latest row
\* (or both none) and the first has inserted its row, the insert of the second
\* leaves both rows marked is_latest and with the same version.
C2_RaceLeavesTwoLatest ==
  [][\A p, q \in Procs :
       (/\ p # q
        /\ Inserts(p)
        /\ pc[q] = "done"
        /\ savedChapter[q] # << >>
        /\ bookId[p] = bookId[q]
        /\ input[p].chapterNumber = input[q].chapterNumber
        /\ input[p].userId = input[q].userId
        /\ SameRead(p, q)
        /\ IsLatest(Books, savedChapter[q][1].id))
       => /\ IsLatest(Books', savedChapter[q][1].id)
          /\ IsLatest(Books', savedChapter'[p][1].id)
          /\ savedChapter'[p][1].id # savedChapter[q][1].id
          /\ savedChapter'[p][1].version = savedChapter[q][1].version]_vars

C2_Witness ==
  \E p, q \in Procs :
    /\ p # q
    /\ pc[p] = "done" /\ pc[q] = "done"
    /\ savedChapter[p] # << >> /\ savedChapter[q] # << >>
    /\ existingChapter[p] # << >>
    /\ SameRead(p, q)
    /\ SameChapter(savedChapter[p][1], savedChapter[q][1])
    /\ savedChapter[p][1].version = savedChapter[q][1].version
    /\ IsLatest(Books, savedChapter[p][1].id)
    /\ IsLatest(Books, savedChapter[q][1].id)

C4_AppendOnly ==
  [][/\ Len(Books') >= Len(Books)
     /\ \A i \in RowIndexes :
          \/ Books'[i] = Books[i]
          \/ /\ Books[i].is_latest
             /\ Books'[i] = [Books[i] EXCEPT !.is_latest = FALSE]
             /\ \E p \in Procs :
                  /\ pc[p] = "update"
                  /\ pc'[p] = "insert"
                  /\ existingChapter[p][1].id = Books[i].id
             /\ \A j \in RowIndexes : j # i => Books'[j] = Books[j]]_vars

C4_Witness ==
  \E i, j \in RowIndexes :
    /\ SameChapter(Books[i], Books[j])
    /\ ~Books[i].is_latest
    /\ Books[j].is_latest
    /\ Books[i].content # Books[j].content
    /\ Books[i].version = "1"

\* C5: a save that read a latest row marks that row not latest and inserts a
\* row with is_latest = true and that row's version + 1; a save that read none
\* inserts a row with version 1 and is_latest = true.
C5_NextVersion ==
  [][\A p \in Procs :
       /\ (pc[p] = "update" /\ pc'[p] = "insert")
            => ~IsLatest(Books', existingChapter[p][1].id)
       /\ Inserts(p) =>
            /\ Books' = Append(Books, savedChapter'[p][1])
            /\ savedChapter'[p][1].is_latest
            /\ IF existingChapter[p] # << >>
               THEN /\ ~IsLatest(Books', existingChapter[p][1].id)
                    /\ \E n \in 1..Len(Books) :
                         /\ existingChapter[p][1].version = ToString(n)
                         /\ savedChapter'[p][1].version = ToString(n + 1)
               ELSE savedChapter'[p][1].version = "1"]_vars

C5_Witness ==
  \E p \in Procs :
    /\ pc[p] = "done"
    /\ savedChapter[p] # << >>
    /\ existingChapter[p] # << >>
    /\ existingChapter[p][1].version = "2"
    /\ savedChapter[p][1].version = "3"
    /\ IsLatest(Books, savedChapter[p][1].id)

RowsOf(rows, row) == {i \in 1..Len(rows) : SameChapter(rows[i], row)}

\* C6: as long as saves run one after another and none fails, the n-th save of a
\* chapter brings its rows to n, with the versions 1..n each once, and the one
\* row marked is_latest has version n.
C6_VersionsCountUp ==
  [][(dbFailures' = 0 /\ NoneRunning') =>
       /\ \A i \in 1..Len(Books') :
            LET n == Cardinality(RowsOf(Books', Books'[i])) IN
              /\ \E v \in 1..n : Books'[i].version = ToString(v)
              /\ \A j \in RowsOf(Books', Books'[i]) :
                   Books'[j].version = Books'[i].version => j = i
              /\ Books'[i].is_latest <=> Books'[i].version = ToString(n)
       /\ \A p \in Procs :
            Inserts(p) =>
              /\ Cardinality(RowsOf(Books', savedChapter'[p][1]))
                   = Cardinality(RowsOf(Books, savedChapter'[p][1])) + 1
              /\ savedChapter'[p][1].version
                   = ToString(Cardinality(RowsOf(Books', savedChapter'[p][1])))]_vars

C6_Witness ==
  /\ NoneRunning
  /\ dbFailures = 0
  /\ \E i, j, k \in RowIndexes :
       /\ SameChapter(Books[i], Books[j]) /\ SameChapter(Books[j], Books[k])
       /\ Books[i].version = "1" /\ ~Books[i].is_latest
       /\ Books[j].version = "2" /\ ~Books[j].is_latest
       /\ Books[k].version = "3" /\ Books[k].is_latest

\* The text-delta parts of a data stream, concatenated in the order written.
DeltasWritten(parts) ==
  LET c[i \in 0..Len(parts)] ==
        IF i = 0 THEN ""
        ELSE IF parts[i].type = "text-delta" THEN c[i - 1] \o parts[i].content
        ELSE c[i - 1]
  IN c[Len(parts)]

Failed(p) == statements[p] # << >> /\ statements[p][Len(statements[p])] = "failed"

\* C7: an execution without a session user id issues no database statement and
\* schedules no memory write; it returns saveError = 'No user session available
\* for saving', no saved flag, and the generated text as content.
C7_NoSession ==
  /\ \A p \in Procs :
       (pc[p] # "idle" /\ input[p].userId = "") =>
         /\ pc[p] = "done"
         /\ statements[p] = << >>
         /\ savedChapter[p] = << >>
         /\ "saveError" \in DOMAIN result[p]
         /\ result[p].saveError = "No user session available for saving"
         /\ "saved" \notin DOMAIN result[p]
         /\ result[p].content = DeltasWritten(dataStream[p])
         /\ result[p].content = draftContent[p]
  /\ \A i \in 1..Len(immediateQueue) : immediateQueue[i].userId # ""
  /\ \A i \in 1..Len(memory) : memory[i].userId # ""
  /\ \A i \in RowIndexes : Books[i].userId # ""

C7_Witness ==
  \E p \in Procs :
    /\ pc[p] = "done"
    /\ input[p].userId = ""
    /\ input[p].bookId # ""
    /\ Books # << >>
    /\ "saveError" \in DOMAIN result[p]

\* C8: an execution one of whose database statements threw has returned, with
\* saveError set, without saved, and with the whole generated text as content:
\* the text-deltas it wrote to the data stream, concatenated in order.
C8_ContentSurvivesDbFailure ==
  \A p \in Procs :
    Failed(p) =>
      /\ pc[p] = "done"
      /\ result[p] # << >>
      /\ "saveError" \in DOMAIN result[p]
      /\ result[p].saveError # ""
      /\ "saved" \notin DOMAIN result[p]
      /\ result[p].content = DeltasWritten(dataStream[p])
      /\ result[p].content = draftContent[p]

C8_Witness ==
  \E p \in Procs :
    /\ pc[p] = "done"
    /\ Failed(p)
    /\ \E k \in 1..Len(statements[p]) : statements[p][k] = "update"
    /\ result[p].content = "bca"

\* C9: callbacks are handed to setImmediate only by the step in which an
\* execution's INSERT succeeds, and they carry that row's chapter: the same
\* user, bookId, chapter number and content.  A step in which an execution
\* returns with a saveError schedules nothing.
C9_MemoryWriteAfterInsert ==
  [][/\ (immediateQueue' # immediateQueue /\ Len(immediateQueue') >= Len(immediateQueue)) =>
          \E p \in Procs :
            /\ Inserts(p)
            /\ Books' = Append(Books, savedChapter'[p][1])
            /\ LET added == SubSeq(immediateQueue', Len(immediateQueue) + 1,
                                   Len(immediateQueue'))
               IN /\ immediateQueue' = immediateQueue \o added
                  /\ added # << >>
                  /\ added[1].fn = "saveChapterToMemoryAsync"
                  /\ \A i \in 1..Len(added) :
                       /\ added[i].userId = savedChapter'[p][1].userId
                       /\ added[i].bookId = savedChapter'[p][1].bookId
                       /\ added[i].bookTitle = savedChapter'[p][1].bookTitle
                  /\ added[1].chapterNumber = savedChapter'[p][1].chapterNumber
                  /\ added[1].content = savedChapter'[p][1].content
     /\ \A p \in Procs :
          (Returns(p) /\ "saveError" \in DOMAIN result'[p]) =>
            immediateQueue' = immediateQueue]_vars

C9_Witness ==
  /\ Len(immediateQueue) = 2
  /\ immediateQueue[1].fn = "saveChapterToMemoryAsync"
  /\ immediateQueue[2].fn = "saveBookMetadataToMemoryAsync"
  /\ \E i \in RowIndexes :
       /\ Books[i].bookId = immediateQueue[1].bookId
       /\ Books[i].content = immediateQueue[1].content
       /\ Books[i].version = "2"

\* A setImmediate callback runs in this step.
CallbackRuns == immediateQueue # << >> /\ immediateQueue' = Tail(immediateQueue)

\* C10: a background memory write, failing or not, changes no result, no
\* execution's progress and no row; it runs only after the execution that
\* scheduled it has returned saved = true without saveError; and an execution
\* started after a memory write failed still saves its chapter unless one of
\* its own database statements throws.
C10_MemoryFailureIsolated ==
  [][/\ CallbackRuns =>
          /\ result' = result
          /\ pc' = pc
          /\ Books' = Books
          /\ saveError' = saveError
          /\ savedChapter' = savedChapter
     /\ \A p \in Procs :
          savedChapter'[p] # << >> =>
            /\ pc'[p] = "done"
            /\ "saved" \in DOMAIN result'[p]
            /\ "saveError" \notin DOMAIN result'[p]
     /\ \A p \in Procs :
          (pc'[p] = "done" /\ failuresAtStart'[p] > 0 /\ input'[p].userId # ""
             /\ ~Failed(p)')
            => /\ "saved" \in DOMAIN result'[p]
               /\ "saveError" \notin DOMAIN result'[p]
               /\ \E i \in 1..Len(Books') : Books'[i] = savedChapter'[p][1]
                                              \/ Books'[i] = [savedChapter'[p][1] EXCEPT
                                                                !.is_latest = FALSE]]_vars

C10_Witness ==
  /\ memoryFailures > 0
  /\ \E p \in Procs :
       /\ pc[p] = "done"
       /\ failuresAtStart[p] > 0
       /\ "saved" \in DOMAIN result[p]
       /\ "saveError" \notin DOMAIN result[p]

\* C11 as stated: the background memory writes of a save are idempotent, so the
\* memory service never holds the record of one (user, book, chapter number,
\* content) twice: a repeated save adds nothing to it.
C11_MemoryWritesIdempotent ==
  \A i, j \in DOMAIN memory : memory[i] = memory[j] => i = j

\* The save of execution p flipped the row it had read and its INSERT threw.
InsertFailedAfterFlip(p) ==
  /\ pc[p] = "done"
  /\ Len(statements[p]) >= 2
  /\ statements[p][Len(statements[p])] = "failed"
  /\ statements[p][Len(statements[p]) - 1] = "update"

\* C18 as stated: a save whose INSERT throws after its UPDATE leaves the row
\* that was latest before the save marked is_latest.
C18_FailedSaveKeepsLatest ==
  \A p \in Procs :
    InsertFailedAfterFlip(p) => IsLatest(Books, existingChapter[p][1].id)

\* Execution p starts in this step.
Starts(p) == id'[p] # id[p]

\* Execution p resolves its bookId with the title lookup in this step.
LooksUpBook(p) == pc[p] = "selectBook" /\ pc'[p] = "selectLatest"

\* The bookIds of the rows user has stored under title.
OwnBookIds(rows, title, user) ==
  {rows[i].bookId : i \in {j \in 1..Len(rows) :
                             rows[j].bookTitle = title /\ rows[j].userId = user}}

\* No row and no execution carries the identifier b.
Fresh(b) ==
  /\ \A i \in RowIndexes : Books[i].bookId # b /\ Books[i].id # b
  /\ \A q \in Procs : bookId[q] # b /\ id[q] # b

\* The provided bookId is used; without one the lookup yields a bookId of the
\* user's rows of that title, or else a fresh id; the row is stored under it.
ResolvesBookId(p) ==
  /\ (Starts(p) /\ input'[p].userId # "" /\ input'[p].bookId # "")
       => bookId'[p] = input'[p].bookId
  /\ LooksUpBook(p) =>
       IF OwnBookIds(Books, input[p].bookTitle, input[p].userId) # {}
       THEN bookId'[p] \in OwnBookIds(Books, input[p].bookTitle, input[p].userId)
       ELSE Fresh(bookId'[p])
  /\ Inserts(p) => savedChapter'[p][1].bookId = bookId[p]

WorkflowPcs ==
  {"ensureSearch", "searchBook", "searchChar", "searchGlobal", "ids", "ensureStore",
   "storeBrief", "saveChar", "store", "awaitBook", "storeScene", "storeEnvironment",
   "generate", "describe", "image", "storeCharacter", "storeProp", "push", "finish"}

\* A step in which the external call the running tool waits for throws.
Throws == /\ Len(calls') = Len(calls) + 1
          /\ ~calls'[Len(calls')].ok

\* A step in which a workflow tool returns.
ToolReturns == Len(returned') = Len(returned) + 1

FailedCall(fn, about) == \E k \in DOMAIN calls : calls[k] = Call(fn, about, FALSE)

SucceededCalls(fn, names) ==
  {k \in DOMAIN calls : calls[k].fn = fn /\ calls[k].about \in names /\ calls[k].ok}

\* C12: a throwing memory search, memory store or image generation never makes
\* a workflow tool throw: the tool goes on with its next step, it returns
\* success = true, and the failed data is replaced by defaults: a plan reports
\* no book context unless the book search succeeded and no more found
\* characters than character searches succeeded; a character whose search or
\* image generation threw gets existingPortrait = false, and portraitUrl ''
\* when the image generation threw.
C12_ToolsSurviveFailures ==
  [][/\ Throws => run'.tool = run.tool /\ run'.pc \in WorkflowPcs
     /\ ToolReturns =>
          /\ returned'[Len(returned')].success
          /\ run.tool = "createBookPlan" =>
               LET found == returned'[Len(returned')].existingContext
                   names == {run.input.mainCharacters[k].name :
                               k \in DOMAIN run.input.mainCharacters}
               IN /\ found.foundBookContext =>
                       SucceededCalls("searchMemories", {"book"}) # {}
                  /\ found.foundCharacters
                       <= Cardinality(SucceededCalls("searchMemories", names))
     /\ (run.tool = "createCharacterPortraits" /\ run.pc = "push" /\ run'.pc # "push") =>
          LET res == run'.results[Len(run'.results)]
          IN /\ FailedCall("searchMemories", res.characterName) => ~res.existingPortrait
             /\ FailedCall("createImage.execute", res.characterName) =>
                  res.portraitUrl = "" /\ ~res.existingPortrait
    ]_vars

\* createCharacterPortraits is about to return although an image generation
\* threw; the character has portraitUrl ''.
C12_Witness ==
  /\ run.tool = "createCharacterPortraits" /\ run.pc = "finish"
  /\ \E k \in DOMAIN run.results :
       /\ FailedCall("createImage.execute", run.results[k].characterName)
       /\ run.results[k].portraitUrl = ""

\* ---------------------------------------------------------------- C13
\* C13: no operation is retried: within one execution, an external call that
\* threw is not invoked again.
C13_NoCallRetried ==
  \A k, m \in DOMAIN calls :
    (k < m /\ ~calls[k].ok) => calls[m].fn # calls[k].fn

\* ---------------------------------------------------------------- C14
\* The stage before each stage of the workflow.
PreviousStage ==
  [draftChapter |-> "createBookPlan", segmentChapterIntoScenes |-> "draftChapter",
   createCharacterPortraits |-> "segmentChapterIntoScenes"]

\* A step in which the running tool writes to the database or to memory.
ToolWrites ==
  /\ run.pc \notin {"idle", "done"}
  /\ \/ Books' # Books
     \/ Len(memory') > Len(memory) /\ Len(calls') > Len(calls)

\* C14: the workflow pauses at an approval gate: while the gate a stage opened
\* for a book is not confirmed, the tool of the next stage writes nothing for
\* that book.
C14_GatePausesNextStage ==
  [][(ToolWrites /\ run.tool \in DOMAIN PreviousStage) =>
       [bookId |-> run.bookId, tool |-> PreviousStage[run.tool]] \notin Gates \ confirmed
    ]_vars

\* ---------------------------------------------------------------- C15
\* The canon portrait of the character the loop is at: the first record of
\* this book the book search returned, else the first record of any book the
\* search across all books returned; << >> when there is none.
CanonPortrait(r) ==
  LET name == r.input.characters[r.i].characterName
      inBook == FindFirst(r.existingCharacters,
                          LAMBDA mem : IsPortraitInBook(mem, name, r.input.bookId))
  IN IF inBook # << >> THEN inBook
     ELSE FindFirst(r.globalCharacters,
                    LAMBDA mem : IsPortraitOf(mem, name, r.input.bookId))

\* A step in which createCharacterPortraits pushes the result of a character.
Pushes ==
  /\ run.tool = "createCharacterPortraits" /\ run.pc = "push"
  /\ Len(run'.results) = Len(run.results) + 1

EnvironmentRecords == {i \in DOMAIN memory : Field(memory[i], "kind") = "environment"}

EnvironmentTuple(mem) == <<mem.location, mem.time_of_day, mem.weather>>

\* C16: environments are reused per (location, time of day, weather): the
\* scenes of a book with the same tuple share one environment record with one
\* environment id, and different tuples have different environment ids.
C16_EnvironmentPerTuple ==
  \A i, j \in EnvironmentRecords :
    (memory[i].userId = memory[j].userId /\ memory[i].book_id = memory[j].book_id) =>
      /\ EnvironmentTuple(memory[i]) = EnvironmentTuple(memory[j]) => i = j
      /\ EnvironmentTuple(memory[i]) # EnvironmentTuple(memory[j]) =>
           memory[i].environment_id # memory[j].environment_id

\* ---------------------------------------------------------------- C17
PropKey(row) == <<row.user_id, row.book_id, row.prop_type, row.prop_name>>

\* C17: book_props holds at most one row per (user_id, book_id, prop_type,
\* prop_name): every step of a saveCharactersToDatabase run leaves the rows
\* there are unchanged and adds no row whose key has a row, so a character
\* with a row is skipped.
C17_OneRowPerKey ==
  [][/\ \A k \in DOMAIN book_props :
          k \in DOMAIN book_props' /\ book_props'[k] = book_props[k]
     /\ \A i, j \in DOMAIN book_props' :
          PropKey(book_props'[i]) = PropKey(book_props'[j]) => i = j
    ]_vars

\* A plan named the character Ann twice; its saveCharactersToDatabase run has
\* ended with no statement failing, and the book has the one row of the first Ann.
C17_Witness ==
  /\ propsJobs = << >>
  /\ toolFailures = 0
  /\ \E r \in DOMAIN returned :
       /\ returned[r].tool = "createBookPlan"
       /\ Len(returned[r].mainCharacters) > 1
       /\ \A c \in DOMAIN returned[r].mainCharacters :
            returned[r].mainCharacters[c].name = returned[r].mainCharacters[1].name
       /\ \E k \in DOMAIN book_props :
            /\ book_props[k].book_id = returned[r].bookId
            /\ book_props[k].prop_data
                 = "{\"role\":\"" \o returned[r].mainCharacters[1].role \o "\"}"
            /\ \A m \in DOMAIN book_props :
                 book_props[m].book_id = returned[r].bookId => m = k

\* ---------------------------------------------------------------- C19
\* draftChapter returns after a createBook execution that inserted its row.
DraftSaved ==
  /\ run.tool = "draftChapter" /\ run.pc = "awaitBook"
  /\ ToolReturns
  /\ savedChapter[run.slot] # << >>

\* C19: draftChapter saves the draft: after an execution whose save succeeds,
\* the latest row of (bookId, chapterNumber, user) has the chapterText that was
\* passed to draftChapter as its content.
C19_DraftTextSaved ==
  [][DraftSaved =>
       \A i \in 1..Len(Books) :
         (/\ Books[i].is_latest
          /\ Books[i].bookId = run.input.bookId
          /\ Books[i].chapterNumber = run.input.chapterNumber
          /\ Books[i].userId = run.input.userId) =>
           Books[i].content = run.input.chapterText
    ]_vars

\* ---------------------------------------------------------------- C21
\* The memories the search found for a character name: those of the first
\* entry of existingCharacters with that name.
FoundMemories(r, name) ==
  LET entries == {k \in DOMAIN r.existingCharacters : r.existingCharacters[k].name = name}
  IN IF entries = {} THEN << >>
     ELSE r.existingCharacters[CHOOSE k \in entries : \A m \in entries : k <= m].memories

\* A step in which createBookPlan writes the memory of its i-th main character.
SavesCharacter ==
  /\ run.tool = "createBookPlan" /\ run.pc = "saveChar"
  /\ Len(calls') = Len(calls) + 1 /\ calls'[Len(calls')].ok

\* The memory writes a plan made for a character name.
CharacterWrites(name) ==
  {k \in DOMAIN calls : /\ calls[k].fn \in {"updateMemory", "storeContent"}
                        /\ calls[k].about = name}

\* C21: with a memory service that does not fail, createBookPlan writes memory
\* once per main character: it updates the first memory its search found for
\* the name and creates no memory, or, when the search found none, stores one
\* new character memory; all other memories stay as they are.
C21_OneWritePerCharacter ==
  [][/\ SavesCharacter =>
          LET character == run.input.mainCharacters[run.i]
              found == FoundMemories(run, character.name)
          IN IF found # << >>
             THEN /\ Len(memory') = Len(memory)
                  /\ memory'[found[1].id].content = CharacterBio(run, character).content
                  /\ memory'[found[1].id].character_name = character.name
                  /\ \A k \in DOMAIN memory : k # found[1].id => memory'[k] = memory[k]
             ELSE /\ Len(memory') = Len(memory) + 1
                  /\ memory'[Len(memory')].content = CharacterBio(run, character).content
                  /\ memory'[Len(memory')].character_name = character.name
                  /\ \A k \in DOMAIN memory : memory'[k] = memory[k]
     /\ (ToolReturns /\ run.tool = "createBookPlan"
         /\ (\A k \in DOMAIN calls : calls[k].ok)
         /\ (\E k \in DOMAIN calls : calls[k].fn = "storeContent" /\ calls[k].about = "book_brief")) =>
          \A c \in DOMAIN run.input.mainCharacters :
            Cardinality(CharacterWrites(run.input.mainCharacters[c].name))
              = Cardinality({d \in DOMAIN run.input.mainCharacters :
                               run.input.mainCharacters[d].name
                                 = run.input.mainCharacters[c].name})
    ]_vars

\* A second plan is about to return: its search found a memory for Ann and
\* the plan updated it.
C21_Witness ==
  /\ run.tool = "createBookPlan" /\ run.pc = "finish"
  /\ \E k \in DOMAIN calls :
       /\ calls[k] = Call("updateMemory", run.input.mainCharacters[1].name, TRUE)
       /\ FoundMemories(run, calls[k].about) # << >>
  /\ \A k \in DOMAIN calls : calls[k].ok

\* ---------------------------------------------------------------- C22
\* The calls of the image tools in the call log after the step.
ImageCalls == {k \in DOMAIN calls' : calls'[k].fn \in {"mergeImages", "editImage",
                                                       "generateImage"}}

NoErrorReceived ==
  \A i \in 1..Len(run.dataStream) : run.dataStream[i].type # "data-error"

\* C23: while no data-error part has been received, the parts DataStreamHandler
\* has dispatched are the first parts of the data stream, each once and in
\* arrival order: the k-th dispatch is of the part at index k - 1, by one
\* effect run, and the dispatched parts end at lastProcessedIndex.
C23_DispatchedOnceInOrder ==
  NoErrorReceived =>
    /\ Len(calls) = run.lastProcessedIndex + 1
    /\ Len(calls) <= Len(run.dataStream)
    /\ \A k \in 1..Len(calls) :
         /\ calls[k] = Dispatch(k - 1, run.dataStream[k], calls[k].from)
         /\ calls[k].from <= k - 1
         /\ k > 1 => calls[k - 1].from <= calls[k].from

C23_Witness ==
  /\ NoErrorReceived
  /\ Len(calls) = 3
  /\ calls[1].from = 0
  /\ calls[2].from = 1
  /\ calls[3].from = 1
  /\ run.rendered = Deps(run)
  /\ run.pending = {}

\* ---------------------------------------------------------------- C24
\* The second effect runs in this step.
StreamEffectRuns == run.pending = {"streamEffect"} /\ run'.pending = {}

\* The 0-based indexes of the parts that effect run newly reads.
Batch == (run.lastProcessedIndex + 1)..(run.rendered.length - 1)

BatchHasError == \E i \in Batch : run.dataStream[i + 1].type = "data-error"

\* C24: an effect run whose batch of new parts holds a data-error part sets
\* the artifact idle and visible, dispatches nothing and moves
\* lastProcessedIndex to the end of the batch; lastProcessedIndex never moves
\* back and only parts behind it are ever dispatched, so no part of that
\* batch is dispatched later.
C24_ErrorBatchDropped ==
  [][ /\ (StreamEffectRuns /\ BatchHasError) =>
            /\ run'.artifact.status = "idle"
            /\ run'.artifact.isVisible
            /\ calls' = calls
            /\ run'.lastProcessedIndex = run.rendered.length - 1
      /\ run'.lastProcessedIndex >= run.lastProcessedIndex
      /\ \A k \in (Len(calls) + 1)..Len(calls') :
            /\ calls'[k].index > run.lastProcessedIndex
            /\ calls'[k].index <= run'.lastProcessedIndex ]_vars

C24_Witness ==
  /\ Len(run.dataStream) = 3
  /\ run.dataStream[1].type = "data-text-delta"
  /\ run.dataStream[2].type = "data-error"
  /\ run.lastProcessedIndex = 2
  /\ Len(calls) = 1
  /\ calls[1].index = 2
  /\ calls[1].from = 2
  /\ run.artifact.isVisible

\* ---------------------------------------------------------------- C25
\* C25: whenever the chat status is not 'streaming' while the artifact status
\* is 'streaming', the artifact status is eventually 'idle', unless the chat
\* streams again: the artifact does not stay 'streaming' forever after the
\* chat has stopped.
C25_StoppedChatIdlesArtifact ==
  (run.status # "streaming" /\ run.artifact.status = "streaming")
    ~> (run.artifact.status = "idle" \/ run.status = "streaming")

\* ---------------------------------------------------------------- C26
LoggedIn(auth) == auth # << >> /\ auth[1].user # << >>

PublicPath(pathname) ==
  \E prefix \in {"/login", "/register", "/landing"} :
     /\ Len(pathname) >= Len(prefix)
     /\ \A i \in 1..Len(prefix) : SubSeq(pathname, i, i) = SubSeq(prefix, i, i)

\* C26: authorized grants a request without a logged-in user only on a path
\* that starts with /login, /register or /landing; on any other path it
\* redirects that request to /login when the path starts with /onboarding and
\* to /landing otherwise; and it redirects a logged-in user on /login,
\* /register or /landing to '/'.
C26_AuthorizedGuardsPaths ==
  \A k \in 1..Len(returned) :
     LET q == returned[k]
     IN /\ (~LoggedIn(q.auth) /\ q.response.allow) => PublicPath(q.pathname)
        /\ (~LoggedIn(q.auth) /\ ~PublicPath(q.pathname)) =>
              q.response = Redirect(IF Len(q.pathname) >= 11
                                       /\ SubSeq(q.pathname, 1, 11) = "/onboarding"
                                    THEN "/login" ELSE "/landing")
        /\ (LoggedIn(q.auth) /\ PublicPath(q.pathname)) => q.response = Redirect("/")

C26_Witness ==
  /\ Len(returned) = 2
  /\ returned[1] = [auth |-> <<[user |-> << >>]>>, pathname |-> "/onboarding/2",
                    response |-> Redirect("/login")]
  /\ returned[2] = [auth |-> << >>, pathname |-> "/api/chat",
                    response |-> Redirect("/landing")]

\* ---------------------------------------------------------------- C27
SyncRequests(changes) ==
  {k \in 1..Len(calls) : /\ calls[k].fn = "POST /api/subscription/sync"
                         /\ calls[k].changes = changes}

InFlight == {k \in 1..Len(run.fetches) : run.fetches[k].pc # "done"}

\* C28: subscriptionLoading is false only when no fetchSubscription call is
\* in flight, and once every call has finished the subscription state holds
\* the response of the call issued last (when that call succeeded and the
\* session has not changed since).
C28_LastFetchWins ==
  /\ ~run.subscriptionLoading => InFlight = {}
  /\ (InFlight = {} /\ run.fetches # << >>) =>
        LET last == run.fetches[Len(run.fetches)]
        IN (last.outcome = "ok" /\ last.changes = run.changes) =>
              run.subscription = last.response[1]

\* ---------------------------------------------------------------- C29
\* The effect has run on the message as it is and has nothing left to open:
\* every createBook result of the message has been processed.
Settled ==
  /\ run.seen = Len(run.parts)
  /\ \A k \in 1..Len(run.parts) :
     IsCreateBookResult(run.parts[k]) =>
        resultId(run.parts[k].output[1]) \in run.processedCreateBookResults

\* C29: the book artifact is opened at most once for each (bookId,
\* chapterNumber) of the createBook results of a message, and once the effect
\* has nothing left to open the open artifact is that of the last createBook
\* result among the message parts.
C29_OpensLatestOnce ==
  /\ \A j, k \in 1..Len(calls) : calls[j].about = calls[k].about => j = k
  /\ (Settled /\ calls # << >>) =>
        LET createBookResults == SelectSeq(run.parts, IsCreateBookResult)
        IN run.artifact =
             <<BookArtifact(createBookResults[Len(createBookResults)].output[1])>>

\* ---------------------------------------------------------------- C30
\* C30: every setArtifact call of the effect is for a createBook result that
\* carries the saved flag; a result with saveError and no saved flag opens
\* nothing.
C30_OpensOnlySaved ==
  \A k \in 1..Len(calls) : calls[k].saved

====
